---- MODULE Spec2Model ----
(***************************************************************************)
(* A model of the job-search automation: the relevance filter of main.py,  *)
(* the run of main(), the aggregator and the source adapters of            *)
(* job_scraper.py / selenium_scraper.py, the description extractors, the   *)
(* resume keyword extractor and the SQLite job store of db_manager.py.     *)
(*                                                                         *)
(* Python strings are sequences of one-character strings, so that          *)
(* str.lower(), the `in` substring test, slicing and concatenation are     *)
(* computed as the code computes them.  Python None is the record None.    *)
(***************************************************************************)
EXTENDS Integers, Sequences, FiniteSets, TLC

\* ------------------------------------------------------------------------
\* Bounds of the model
\* ------------------------------------------------------------------------

\* largest value of the configured minimum-skill threshold that is explored
MaxThreshold == 3

\* ------------------------------------------------------------------------
\* Python values
\* ------------------------------------------------------------------------

\* Python's None
None == [none |-> TRUE]

\* the empty dict {} (falsy)
EmptyDict == [empty_dict |-> TRUE]

ascii_uppercase == <<"A","B","C","D","E","F","G","H","I","J","K","L","M","N","O","P","Q","R","S","T","U","V","W","X","Y","Z">>

ascii_lowercase == <<"a","b","c","d","e","f","g","h","i","j","k","l","m","n","o","p","q","r","s","t","u","v","w","x","y","z">>

\* str.lower() on one character
LowerChar(c) ==
    IF \E i \in DOMAIN ascii_uppercase : ascii_uppercase[i] = c
    THEN ascii_lowercase[CHOOSE i \in DOMAIN ascii_uppercase : ascii_uppercase[i] = c]
    ELSE c

\* str.lower()
Lower(s) == [i \in 1..Len(s) |-> LowerChar(s[i])]

\* the substring test `needle in hay`
Contains(needle, hay) ==
    \E i \in 0..(Len(hay) - Len(needle)) :
        \A k \in 1..Len(needle) : hay[i + k] = needle[k]

\* dict.get(key, default)
Get(d, key, default) == IF key \in DOMAIN d THEN d[key] ELSE default

\* elements of a list, as a set
Range(s) == {s[i] : i \in DOMAIN s}

\* ------------------------------------------------------------------------
\* Keyword tables of the relevance filter (main.py) and vocabularies
\* (config.py)
\* ------------------------------------------------------------------------

kw_remote == <<"r","e","m","o","t","e">>
kw_work_from_home == <<"w","o","r","k"," ","f","r","o","m"," ","h","o","m","e">>
kw_worldwide == <<"w","o","r","l","d","w","i","d","e">>
kw_home_office == <<"h","o","m","e"," ","o","f","f","i","c","e">>
kw_global == <<"g","l","o","b","a","l">>
kw_international == <<"i","n","t","e","r","n","a","t","i","o","n","a","l">>
kw_inc == <<"i","n","c",".">>
kw_corp == <<"c","o","r","p",".">>
kw_ngo == <<"n","g","o">>
kw_non_profit == <<"n","o","n","-","p","r","o","f","i","t">>
kw_foundation == <<"f","o","u","n","d","a","t","i","o","n">>
kw_charity == <<"c","h","a","r","i","t","y">>
kw_united_nations == <<"u","n","i","t","e","d"," ","n","a","t","i","o","n","s">>
kw_wfp == <<"w","f","p">>

\* the list of main.py line 99
international_company_keywords == <<kw_global, kw_international, kw_inc, kw_corp>>

\* the list of main.py lines 107-114
ngo_keywords == <<kw_ngo, kw_non_profit, kw_foundation, kw_charity, kw_united_nations, kw_wfp>>

sk_python == <<"p","y","t","h","o","n">>
sk_django == <<"d","j","a","n","g","o">>
sk_flask == <<"f","l","a","s","k">>
sk_aws == <<"a","w","s">>
sk_docker == <<"d","o","c","k","e","r">>
sk_kubernetes == <<"k","u","b","e","r","n","e","t","e","s">>
sk_sql == <<"s","q","l">>
sk_rest_api == <<"r","e","s","t"," ","a","p","i">>
sk_microservices == <<"m","i","c","r","o","s","e","r","v","i","c","e","s">>
sk_git == <<"g","i","t">>
sk_linux == <<"l","i","n","u","x">>
sk_cloud == <<"c","l","o","u","d">>
sk_api_design == <<"a","p","i"," ","d","e","s","i","g","n">>

DEFAULT_SKILLS == <<sk_python, sk_django, sk_flask, sk_aws, sk_docker, sk_kubernetes, sk_sql,
                    sk_rest_api, sk_microservices, sk_git, sk_linux, sk_cloud, sk_api_design>>

ro_software_engineer == <<"s","o","f","t","w","a","r","e"," ","e","n","g","i","n","e","e","r">>
ro_backend_developer == <<"b","a","c","k","e","n","d"," ","d","e","v","e","l","o","p","e","r">>
ro_software_developer == <<"s","o","f","t","w","a","r","e"," ","d","e","v","e","l","o","p","e","r">>
ro_devops_engineer == <<"d","e","v","o","p","s"," ","e","n","g","i","n","e","e","r">>
ro_cloud_engineer == <<"c","l","o","u","d"," ","e","n","g","i","n","e","e","r">>

DEFAULT_ROLES == <<ro_software_engineer, ro_backend_developer, ro_software_developer,
                   ro_devops_engineer, ro_cloud_engineer>>

DEFAULT_PREFERENCES == <<kw_remote, kw_international, kw_ngo, kw_non_profit, kw_worldwide>>

\* ------------------------------------------------------------------------
\* The relevance filter: filter_and_process_job (main.py)
\* ------------------------------------------------------------------------

\* is_remote, main.py lines 88-93 (arguments already lower-cased)
is_remote(title, location) ==
    \/ Contains(kw_remote, location)
    \/ Contains(kw_work_from_home, title)
    \/ Contains(kw_worldwide, location)
    \/ Contains(kw_home_office, location)

\* is_international_company, main.py lines 96-104
is_international_company(company, description) ==
    \/ \E i \in DOMAIN international_company_keywords :
           Contains(international_company_keywords[i], company)
    \/ Contains(kw_global, description)
    \/ Contains(kw_international, description)
    \/ Contains(kw_worldwide, description)

\* is_ngo, main.py lines 105-115
is_ngo(company, description) ==
    \E i \in DOMAIN ngo_keywords :
        Contains(ngo_keywords[i], company) \/ Contains(ngo_keywords[i], description)

\* role_match, main.py lines 118-121
role_match(title, description, roles) ==
    \E i \in DOMAIN roles :
        Contains(Lower(roles[i]), title) \/ Contains(Lower(roles[i]), description)

\* skills_match_count, main.py lines 124-128: one per list element that matches
skills_match_count(title, description, skills) ==
    Cardinality({i \in DOMAIN skills :
        Contains(Lower(skills[i]), description) \/ Contains(Lower(skills[i]), title)})

\* is_relevant, main.py lines 129-134
is_relevant(title, company, location, description, keywords, min_skill_matches) ==
    /\ is_remote(title, location)
    /\ role_match(title, description, keywords.roles)
    /\ skills_match_count(title, description, keywords.skills) >= min_skill_matches
    /\ (is_international_company(company, description) \/ is_ngo(company, description))

\* relevance_score, main.py lines 137-141
relevance_score(title, company, description, keywords) ==
    skills_match_count(title, description, keywords.skills)
    + (IF is_ngo(company, description) THEN 2 ELSE 0)
    + (IF is_international_company(company, description) THEN 1 ELSE 0)

\* a filter that wants exactly the threshold's number of skills
filter_and_process_job_ExactSkills(job, keywords, min_skill_matches, today_, clock) ==
    LET title == Lower(Get(job, "title", <<>>))
        company == Lower(Get(job, "company", <<>>))
        location == Lower(Get(job, "location", <<>>))
        description == Lower(Get(job, "description", <<>>))
    IN  IF /\ is_relevant(title, company, location, description, keywords, min_skill_matches)
           /\ skills_match_count(title, description, keywords.skills) = min_skill_matches
        THEN [title |-> Get(job, "title", None),
              company |-> Get(job, "company", None),
              location |-> Get(job, "location", None),
              url |-> Get(job, "url", None),
              description |-> description,
              date_posted |-> Get(job, "date_posted", today_),
              date_found |-> clock,
              relevance_score |-> relevance_score(title, company, description, keywords)]
        ELSE None

\* a filter whose score depends on the time of the call
filter_and_process_job_ClockScore(job, keywords, min_skill_matches, today_, clock) ==
    LET title == Lower(Get(job, "title", <<>>))
        company == Lower(Get(job, "company", <<>>))
        location == Lower(Get(job, "location", <<>>))
        description == Lower(Get(job, "description", <<>>))
    IN  IF is_relevant(title, company, location, description, keywords, min_skill_matches)
        THEN [title |-> Get(job, "title", None),
              company |-> Get(job, "company", None),
              location |-> Get(job, "location", None),
              url |-> Get(job, "url", None),
              description |-> description,
              date_posted |-> Get(job, "date_posted", today_),
              date_found |-> clock,
              relevance_score |-> relevance_score(title, company, description, keywords) + clock]
        ELSE None

\* a filter that forgets the remote test
filter_and_process_job_NoRemote(job, keywords, min_skill_matches, today_, clock) ==
    LET title == Lower(Get(job, "title", <<>>))
        company == Lower(Get(job, "company", <<>>))
        description == Lower(Get(job, "description", <<>>))
    IN  IF /\ role_match(title, description, keywords.roles)
           /\ skills_match_count(title, description, keywords.skills) >= min_skill_matches
           /\ (is_international_company(company, description) \/ is_ngo(company, description))
        THEN [title |-> Get(job, "title", None),
              company |-> Get(job, "company", None),
              location |-> Get(job, "location", None),
              url |-> Get(job, "url", None),
              description |-> description,
              date_posted |-> Get(job, "date_posted", today_),
              date_found |-> clock,
              relevance_score |-> relevance_score(title, company, description, keywords)]
        ELSE None

\* a filter that weighs an NGO posting like an international one
filter_and_process_job_FlatWeight(job, keywords, min_skill_matches, today_, clock) ==
    LET title == Lower(Get(job, "title", <<>>))
        company == Lower(Get(job, "company", <<>>))
        location == Lower(Get(job, "location", <<>>))
        description == Lower(Get(job, "description", <<>>))
    IN  IF is_relevant(title, company, location, description, keywords, min_skill_matches)
        THEN [title |-> Get(job, "title", None),
              company |-> Get(job, "company", None),
              location |-> Get(job, "location", None),
              url |-> Get(job, "url", None),
              description |-> description,
              date_posted |-> Get(job, "date_posted", today_),
              date_found |-> clock,
              relevance_score |->
                  skills_match_count(title, description, keywords.skills)
                  + (IF is_ngo(company, description) THEN 1 ELSE 0)
                  + (IF is_international_company(company, description) THEN 1 ELSE 0)]
        ELSE None

\* a filter that returns a zero-score record for a job it rejects
filter_and_process_job_ZeroScore(job, keywords, min_skill_matches, today_, clock) ==
    LET title == Lower(Get(job, "title", <<>>))
        company == Lower(Get(job, "company", <<>>))
        location == Lower(Get(job, "location", <<>>))
        description == Lower(Get(job, "description", <<>>))
    IN  [title |-> Get(job, "title", None),
         company |-> Get(job, "company", None),
         location |-> Get(job, "location", None),
         url |-> Get(job, "url", None),
         description |-> description,
         date_posted |-> Get(job, "date_posted", today_),
         date_found |-> clock,
         relevance_score |->
             IF is_relevant(title, company, location, description, keywords, min_skill_matches)
             THEN relevance_score(title, company, description, keywords)
             ELSE 0]

\* filter_and_process_job(job_data, resume_keywords); MIN_SKILL_MATCHES, the
\* date and the clock it reads are parameters here
filter_and_process_job(job, keywords, min_skill_matches, today_, clock) ==
    LET title == Lower(Get(job, "title", <<>>))
        company == Lower(Get(job, "company", <<>>))
        location == Lower(Get(job, "location", <<>>))
        description == Lower(Get(job, "description", <<>>))
    IN  IF is_relevant(title, company, location, description, keywords, min_skill_matches)
        THEN [title |-> Get(job, "title", None),
              company |-> Get(job, "company", None),
              location |-> Get(job, "location", None),
              url |-> Get(job, "url", None),
              description |-> description,
              date_posted |-> Get(job, "date_posted", today_),
              date_found |-> clock,
              relevance_score |-> relevance_score(title, company, description, keywords)]
        ELSE None

\* ------------------------------------------------------------------------
\* Example inputs of the relevance filter
\* ------------------------------------------------------------------------

t_Backend_Developer == <<"B","a","c","k","e","n","d"," ","D","e","v","e","l","o","p","e","r">>
t_Accountant == <<"A","c","c","o","u","n","t","a","n","t">>
t_WFH_Software_Engineer == <<"W","o","r","k"," ","F","r","o","m"," ","H","o","m","e"," ","S","o","f","t","w","a","r","e"," ","E","n","g","i","n","e","e","r">>
c_Acme_Global_Inc == <<"A","c","m","e"," ","G","l","o","b","a","l"," ","I","n","c",".">>
c_Hope_Foundation == <<"H","o","p","e"," ","F","o","u","n","d","a","t","i","o","n">>
c_Acme_Corp == <<"A","c","m","e"," ","C","o","r","p",".">>
c_Acme == <<"A","c","m","e">>
c_WFP == <<"W","F","P">>
c_United_Nations == <<"U","n","i","t","e","d"," ","N","a","t","i","o","n","s">>
l_Remote_Worldwide == <<"R","e","m","o","t","e"," ","-"," ","W","o","r","l","d","w","i","d","e">>
l_New_York == <<"N","e","w"," ","Y","o","r","k",","," ","N","Y">>
l_Remote == <<"R","e","m","o","t","e">>
l_Home_Office == <<"H","o","m","e"," ","O","f","f","i","c","e">>
s_NA == <<"N","/","A">>
d_python_django_aws_api_design == <<"p","y","t","h","o","n"," ","d","j","a","n","g","o"," ","a","w","s"," ","a","p","i"," ","d","e","s","i","g","n">>
d_python_aws_flask == <<"p","y","t","h","o","n"," ","a","w","s"," ","f","l","a","s","k">>
d_python_aws == <<"p","y","t","h","o","n"," ","a","w","s">>
d_Python_AWS == <<"P","y","t","h","o","n"," ","A","W","S">>
d_backend_international == <<"b","a","c","k","e","n","d"," ","d","e","v","e","l","o","p","e","r"," ","p","y","t","h","o","n"," ","d","j","a","n","g","o"," ","i","n","t","e","r","n","a","t","i","o","n","a","l">>

\* short URLs
url_1 == <<"u","/","1">>
url_2 == <<"u","/","2">>
url_3 == <<"u","/","3">>

\* a job record as the adapters build it
Job(title, company, location, url, description, date_posted) ==
    [title |-> title, company |-> company, location |-> location, url |-> url,
     description |-> description, date_posted |-> date_posted]

\* the accept example: remote, role and three skills in the description
job_example == Job(t_Backend_Developer, c_Acme_Global_Inc, l_Remote_Worldwide, url_1,
                   d_python_django_aws_api_design, 0)

\* the same job in New York
job_not_remote == Job(t_Backend_Developer, c_Acme_Global_Inc, l_New_York, url_1,
                      d_python_django_aws_api_design, 0)

\* an NGO by its company name only, three skills without "django"
job_ngo_only == Job(t_Backend_Developer, c_Hope_Foundation, l_Remote, url_2,
                    d_python_aws_flask, 0)

\* an international company only, three skills without "django"
job_intl_only == Job(t_Backend_Developer, c_Acme_Corp, l_Home_Office, url_2,
                     d_python_aws_flask, 0)

\* two skill terms only
job_two_skills == Job(t_Backend_Developer, c_Acme_Global_Inc, l_Remote, url_3,
                      d_python_aws, 0)

\* neither international nor NGO
job_local_company == Job(t_Backend_Developer, c_Acme, l_Remote, url_3, d_python_aws_flask, 0)

\* no role of the resume
job_other_role == Job(t_Accountant, c_Acme_Global_Inc, l_Remote, url_3, d_python_aws_flask, 0)

\* remote by its title, upper-case texts
job_upper_case == Job(t_WFH_Software_Engineer, c_WFP, s_NA, url_2, d_Python_AWS, 1)

\* NGO and international, the role in the description
job_un == Job(t_Accountant, c_United_Nations, l_Remote_Worldwide, url_1,
              d_backend_international, 1)

\* a record without a date_posted key
job_no_date == [title |-> t_Backend_Developer, company |-> c_Hope_Foundation,
                location |-> l_Remote, url |-> url_3, description |-> d_python_django_aws_api_design]

JobUniverse == {job_example, job_not_remote, job_ngo_only, job_intl_only, job_two_skills,
                job_local_company, job_other_role, job_upper_case, job_un, job_no_date}

\* a keyword set as parse_resume_keywords builds it
Keywords(skills, roles) == [skills |-> skills, roles |-> roles, preferences |-> DEFAULT_PREFERENCES]

kw_example == Keywords(<<sk_python, sk_django, sk_aws>>, <<ro_backend_developer>>)

kw_flask == Keywords(<<sk_python, sk_aws, sk_flask>>, <<ro_backend_developer, ro_software_engineer>>)

kw_no_roles == Keywords(<<sk_python>>, <<>>)

kw_no_skills == Keywords(<<>>, <<ro_software_engineer, ro_backend_developer>>)

KeywordUniverse == {kw_example, kw_flask, kw_no_roles, kw_no_skills}

\* ------------------------------------------------------------------------
\* Text helpers
\* ------------------------------------------------------------------------

\* None where a string is expected (an absent href, an absent date text)
NoneStr == <<"None">>

\* the slice bound of description_text[:5000]
DESCRIPTION_LIMIT == 5000

Min(a, b) == IF a <= b THEN a ELSE b

\* characters str.strip() removes
IsSpace(c) == c \in {" ", "\n", "\t"}

\* str.strip()
Strip(s) ==
    IF \A i \in 1..Len(s) : IsSpace(s[i])
    THEN <<>>
    ELSE LET first == CHOOSE i \in 1..Len(s) :
                          ~IsSpace(s[i]) /\ \A j \in 1..(i - 1) : IsSpace(s[j])
             drop == CHOOSE k \in 0..(Len(s) - 1) :
                          ~IsSpace(s[Len(s) - k]) /\ \A j \in 0..(k - 1) : IsSpace(s[Len(s) - j])
         IN  SubSeq(s, first, Len(s) - drop)

\* a non-empty string is truthy
NonEmpty(s) == Len(s) > 0

RECURSIVE Join(_, _)
\* sep.join(parts)
Join(sep, parts) ==
    IF parts = <<>> THEN <<>>
    ELSE IF Len(parts) = 1 THEN parts[1]
    ELSE parts[1] \o sep \o Join(sep, Tail(parts))

\* a slice that keeps one character too many
Truncate_OffByOne(s) == SubSeq(s, 1, Min(Len(s), DESCRIPTION_LIMIT + 1))

\* s[:5000]
Truncate(s) == SubSeq(s, 1, Min(Len(s), DESCRIPTION_LIMIT))

\* s.startswith(prefix)
StartsWith(s, prefix) == Len(s) >= Len(prefix) /\ SubSeq(s, 1, Len(prefix)) = prefix

\* `not job_url or job_url == "N/A"`
NoUrl(job_url) == job_url = NoneStr \/ job_url = <<>> \/ job_url = <<"N","/","A">>

\* ------------------------------------------------------------------------
\* Sentinel strings and fixed URLs of the scrapers
\* ------------------------------------------------------------------------

s_no_url == <<"N","o"," ","U","R","L"," ","p","r","o","v","i","d","e","d",".">>
s_na_requests == <<"N","/","A"," ","(","C","o","u","l","d"," ","n","o","t"," ","f","e","t","c","h"," ","f","u","l","l"," ","d","e","s","c","r","i","p","t","i","o","n"," ","v","i","a"," ","r","e","q","u","e","s","t","s",")">>
s_na_selenium == <<"N","/","A"," ","(","C","o","u","l","d"," ","n","o","t"," ","f","e","t","c","h"," ","f","u","l","l"," ","d","e","s","c","r","i","p","t","i","o","n"," ","v","i","a"," ","S","e","l","e","n","i","u","m",")">>
s_na_prefix == <<"N","/","A"," ","(","C","o","u","l","d"," ","n","o","t"," ","f","e","t","c","h">>
s_na_no_driver == <<"N","/","A"," ","(","S","e","l","e","n","i","u","m"," ","d","r","i","v","e","r"," ","n","o","t"," ","a","v","a","i","l","a","b","l","e",")">>
s_no_driver == <<"N","o"," ","S","e","l","e","n","i","u","m"," ","d","r","i","v","e","r"," ","a","v","a","i","l","a","b","l","e",".">>
s_na_no_fallback == <<"N","/","A"," ","(","C","o","u","l","d"," ","n","o","t"," ","f","e","t","c","h"," ","d","e","s","c","r","i","p","t","i","o","n",","," ","S","e","l","e","n","i","u","m"," ","d","r","i","v","e","r"," ","n","o","t"," ","a","v","a","i","l","a","b","l","e"," ","f","o","r"," ","f","a","l","l","b","a","c","k",")">>
s_placeholder == <<"A","g","g","r","e","g","a","t","o","r"," ","l","i","s","t","i","n","g"," ","-"," ","r","e","f","e","r"," ","t","o"," ","e","x","t","e","r","n","a","l"," ","U","R","L"," ","f","o","r"," ","f","u","l","l"," ","d","e","t","a","i","l","s",".">>
s_unjobs_host == <<"h","t","t","p","s",":","/","/","u","n","j","o","b","s",".","o","r","g">>
s_unjobs_vacancies == <<"u","n","j","o","b","s",".","o","r","g","/","v","a","c","a","n","c","i","e","s">>
s_careers_host == <<"h","t","t","p","s",":","/","/","c","a","r","e","e","r","s",".","u","n",".","o","r","g">>
s_wellfound_host == <<"h","t","t","p","s",":","/","/","w","e","l","l","f","o","u","n","d",".","c","o","m">>
s_United_Nations == <<"U","n","i","t","e","d"," ","N","a","t","i","o","n","s">>
s_Microsoft == <<"M","i","c","r","o","s","o","f","t">>
s_World_Food_Programme == <<"W","o","r","l","d"," ","F","o","o","d"," ","P","r","o","g","r","a","m","m","e">>

\* ------------------------------------------------------------------------
\* Description extractors
\*
\* A page is what the backend gets for a URL:
\*   status        "ok", or the name of the exception the fetch or parse raises
\*   specific      the element select_one finds for the site-specific selector
\*                 (None when no element matches); an element is the list of
\*                 its text nodes
\*   classed       the elements whose class contains description / content /
\*                 job-details
\*   broad         all div, p and li elements
\*   elements      the texts of the WebElements of the selenium_scraper
\*                 selector list
\*   main_content  the text of .wd-main-content / #main-content (NoneStr when
\*                 there is no such element)
\*   body          the text of body
\* ------------------------------------------------------------------------

\* Tag.get_text(separator, strip=True): the stripped, non-empty text nodes
get_text(elem, separator) ==
    Join(separator, SelectSeq([i \in 1..Len(elem) |-> Strip(elem[i])], NonEmpty))

\* " ".join([e.get_text(strip=True) for e in elems if e.get_text(strip=True)])
joined_text(elems) ==
    Join(<<" ">>, SelectSeq([i \in 1..Len(elems) |-> get_text(elems[i], <<>>)], NonEmpty))

\* job_scraper.fetch_full_description_requests(job_url), page being the
\* response to requests.get(job_url)
fetch_full_description_requests(job_url, page) ==
    IF NoUrl(job_url) THEN s_no_url
    ELSE IF page.status # "ok" THEN s_na_requests
    ELSE IF page.specific # None THEN Truncate(get_text(page.specific.strings, <<"\n">>))
    ELSE LET description_elements ==
                 IF page.classed # <<>> THEN page.classed ELSE page.broad
         IN  Truncate(joined_text(description_elements))

\* a rendering extractor whose failure names the HTTP backend
fetch_full_description_selenium_WrongBackend(driver, job_url, page) ==
    IF driver = None THEN s_na_no_driver
    ELSE IF NoUrl(job_url) THEN s_no_url
    ELSE IF page.status # "ok" THEN s_na_requests
    ELSE LET description_elements ==
                 IF page.classed # <<>> THEN page.classed ELSE page.broad
         IN  Truncate(joined_text(description_elements))

\* job_scraper.fetch_full_description_selenium(driver, job_url), page being
\* what the driver renders for job_url
fetch_full_description_selenium(driver, job_url, page) ==
    IF driver = None THEN s_na_no_driver
    ELSE IF NoUrl(job_url) THEN s_no_url
    ELSE IF page.status # "ok" THEN s_na_selenium
    ELSE LET description_elements ==
                 IF page.classed # <<>> THEN page.classed ELSE page.broad
         IN  Truncate(joined_text(description_elements))

\* selenium_scraper.fetch_full_description_selenium(driver, job_url)
selenium_scraper_fetch_full_description_selenium(driver, job_url, page) ==
    IF driver = None THEN s_no_driver
    ELSE IF NoUrl(job_url) THEN s_no_url
    ELSE IF page.status # "ok" THEN s_na_selenium
    ELSE IF page.elements # <<>>
         THEN Truncate(Join(<<" ">>, [i \in 1..Len(page.elements) |-> Strip(page.elements[i])]))
    ELSE IF page.main_content # NoneStr THEN Truncate(Strip(page.main_content))
    ELSE Truncate(Strip(page.body))

\* ------------------------------------------------------------------------
\* Source adapters
\*
\* A listing is what the backend gets for the search URL: its status ("ok" or
\* the name of the exception raised) and its cards.  A card carries
\*   raises      an exception is raised while the card's fields are read
\*   title_tag   None, or the title link: its text and its href (NoneStr when
\*               the attribute is absent)
\*   company, location   the text of the element, NoneStr when it is absent
\*   date        None, or the date text: its form and the day it denotes
\*   vacancy     the response to the card's unjobs.org vacancy page: status and
\*               the href of the apply link (NoneStr when there is none)
\*   detail      the page requests gets for the job URL
\*   rendered    the page the driver renders for the job URL
\* Dates are day numbers counted from datetime.date.min, which is day 1.
\* ------------------------------------------------------------------------

\* `tag.get_text(strip=True) if tag else "N/A"`
text_or_na(text) == IF text = NoneStr THEN s_NA ELSE Strip(text)

\* datetime.date.min as a day number: a date before it cannot be built
date_min == 1

\* `datetime.date.today() - datetime.timedelta(days=days_ago)` raises
\* OverflowError when the result lies before datetime.date.min,
\* job_scraper.py lines 341-344
unjobs_date_raises(date, today_) ==
    date # None /\ date.form = "days_ago" /\ today_ - date.n < date_min

\* the date_posted of an unjobs.org card, job_scraper.py lines 330-360
unjobs_date_posted(date, today_) ==
    IF date = None THEN today_
    ELSE IF date.form = "days_ago" THEN today_ - date.n
    ELSE IF date.form \in {"month_d_year", "d_month_year"} THEN date.day
    ELSE today_

\* the date_posted of a careers.un.org row, job_scraper.py lines 457-480
careers_date_posted(date, today_) ==
    IF date = None THEN today_
    ELSE IF date.form \in {"d_month_year", "period"} THEN date.day
    ELSE today_

\* job_scraper.get_unjobs_application_url(vacancy_page_url)
get_unjobs_application_url(vacancy_page_url, vacancy) ==
    IF vacancy_page_url = <<>> \/ ~Contains(s_unjobs_vacancies, vacancy_page_url) THEN s_NA
    ELSE IF vacancy.status # "ok" THEN s_NA
    ELSE IF vacancy.apply_href # NoneStr THEN Strip(vacancy.apply_href)
    ELSE s_NA

\* the record of one unjobs.org card, job_scraper.py lines 309-374
unjobs_record(card, today_) ==
    LET href == IF card.title_tag # None /\ card.title_tag.href # NoneStr
                THEN card.title_tag.href ELSE s_NA
        unjobs_vacancy_url == IF StartsWith(href, <<"/">>) THEN s_unjobs_host \o href ELSE href
    IN  Job(IF card.title_tag # None THEN Strip(card.title_tag.text) ELSE s_NA,
            text_or_na(card.company),
            text_or_na(card.location),
            get_unjobs_application_url(unjobs_vacancy_url, card.vacancy),
            s_placeholder,
            unjobs_date_posted(card.date, today_))

\* the record of one careers.un.org row, job_scraper.py lines 439-494
careers_record(card, today_) ==
    LET job_url == IF card.title_tag # None /\ card.title_tag.href # NoneStr
                   THEN s_careers_host \o card.title_tag.href ELSE s_NA
    IN  Job(IF card.title_tag # None THEN Strip(card.title_tag.text) ELSE s_NA,
            s_United_Nations,
            text_or_na(card.location),
            job_url,
            fetch_full_description_requests(job_url, card.detail),
            careers_date_posted(card.date, today_))

\* the description of one Wellfound card, job_scraper.py lines 214-221
wellfound_description(driver, job_url, card) ==
    LET description == fetch_full_description_requests(job_url, card.detail)
    IN  IF Contains(s_na_prefix, description) /\ driver # None
        THEN fetch_full_description_selenium(driver, job_url, card.rendered)
        ELSE IF Contains(s_na_prefix, description) /\ driver = None
        THEN s_na_no_fallback
        ELSE description

\* the record of one Wellfound card, job_scraper.py lines 186-232
wellfound_record(driver, card, today_) ==
    LET job_url == IF card.title_tag # None /\ card.title_tag.href # NoneStr
                   THEN s_wellfound_host \o card.title_tag.href ELSE s_NA
    IN  Job(IF card.title_tag # None THEN Strip(card.title_tag.text) ELSE s_NA,
            text_or_na(card.company),
            text_or_na(card.location),
            job_url,
            wellfound_description(driver, job_url, card),
            today_)

RECURSIVE unjobs_cards(_, _)
\* the loop over the cards, job_scraper.py lines 307-377
unjobs_cards(cards, today_) ==
    IF cards = <<>> THEN <<>>
    ELSE (IF Head(cards).raises \/ unjobs_date_raises(Head(cards).date, today_)
          THEN <<>>
          ELSE <<unjobs_record(Head(cards), today_)>>)
         \o unjobs_cards(Tail(cards), today_)

RECURSIVE careers_cards(_, _)
\* the loop over the rows, job_scraper.py lines 433-497
careers_cards(cards, today_) ==
    IF cards = <<>> THEN <<>>
    ELSE (IF Head(cards).raises THEN <<>> ELSE <<careers_record(Head(cards), today_)>>)
         \o careers_cards(Tail(cards), today_)

RECURSIVE wellfound_cards(_, _, _)
\* the loop over the cards, job_scraper.py lines 184-235
wellfound_cards(driver, cards, today_) ==
    IF cards = <<>> THEN <<>>
    ELSE (IF Head(cards).raises THEN <<>> ELSE <<wellfound_record(driver, Head(cards), today_)>>)
         \o wellfound_cards(driver, Tail(cards), today_)

\* job_scraper.scrape_unjobs_org(query): the jobs it returns
scrape_unjobs_org(listing, today_) ==
    IF listing.status # "ok" THEN <<>> ELSE unjobs_cards(listing.cards, today_)

\* an adapter that reads the body of a response whatever its status
scrape_careers_un_org_IgnoresStatus(listing, today_) == careers_cards(listing.cards, today_)

\* job_scraper.scrape_careers_un_org(): the jobs it returns
scrape_careers_un_org(listing, today_) ==
    IF listing.status # "ok" THEN <<>> ELSE careers_cards(listing.cards, today_)

\* an adapter that goes on to the listing without a session
scrape_wellfound_NoSessionCheck(driver, listing, today_) ==
    IF listing.status # "ok" THEN <<>>
    ELSE wellfound_cards(driver, listing.cards, today_)

\* job_scraper.scrape_wellfound(driver, query): the jobs it returns
scrape_wellfound(driver, listing, today_) ==
    IF driver = None THEN <<>>
    ELSE IF listing.status # "ok" THEN <<>>
    ELSE wellfound_cards(driver, listing.cards, today_)

\* job_scraper.scrape_linkedin_jobs(query)
scrape_linkedin_jobs == <<>>

RECURSIVE selenium_cards(_, _, _, _, _)
\* the loop over the WebElements of the listing, selenium_scraper.py lines
\* 126-158 and 209-247.  The elements were found on the listing page; once
\* the driver has navigated to a job page (left), they are stale and reading
\* one raises StaleElementReferenceException, which the loop catches.
selenium_cards(driver, cards, company, today_, left) ==
    IF cards = <<>> THEN <<>>
    ELSE LET card == Head(cards)
             missing == card.title_tag = None \/ card.location = NoneStr
         IN  IF left \/ card.raises \/ missing
             THEN selenium_cards(driver, Tail(cards), company, today_, left)
             ELSE <<Job(Strip(card.title_tag.text),
                        company,
                        Strip(card.location),
                        card.title_tag.href,
                        selenium_scraper_fetch_full_description_selenium(
                            driver, card.title_tag.href, card.rendered),
                        today_)>>
                  \o selenium_cards(driver, Tail(cards), company, today_,
                                    ~NoUrl(card.title_tag.href))

\* selenium_scraper.scrape_microsoft_careers(driver, query_params)
scrape_microsoft_careers(driver, listing, today_) ==
    IF driver = None THEN <<>>
    ELSE IF listing.status # "ok" THEN <<>>
    ELSE selenium_cards(driver, listing.cards, s_Microsoft, today_, FALSE)

\* selenium_scraper.scrape_wfp_careers(driver, keywords)
scrape_wfp_careers(driver, listing, today_) ==
    IF driver = None THEN <<>>
    ELSE IF listing.status # "ok" THEN <<>>
    ELSE selenium_cards(driver, listing.cards, s_World_Food_Programme, today_, FALSE)

\* ------------------------------------------------------------------------
\* Resume keyword extractor (resume_parser.py)
\* ------------------------------------------------------------------------

\* a parser that answers an unreadable resume with empty keyword lists
parse_resume_keywords_EmptyLists(resume) ==
    IF ~resume.exists THEN EmptyDict
    ELSE LET text_lower == IF resume.readable THEN Lower(resume.text) ELSE <<>>
             InText(term) == Contains(term, text_lower)
         IN  Keywords(SelectSeq(DEFAULT_SKILLS, InText), SelectSeq(DEFAULT_ROLES, InText))

\* a parser that returns the whole vocabulary whatever the text
parse_resume_keywords_Defaults(resume) ==
    IF ~resume.exists THEN EmptyDict
    ELSE IF ~resume.readable THEN EmptyDict
    ELSE Keywords(DEFAULT_SKILLS, DEFAULT_ROLES)

\* parse_resume_keywords(pdf_path): the resume file exists or not, pdfminer
\* extracts its text or raises.  list(set(...)) fixes no order; the
\* vocabulary order is used, and nothing modelled reads the order.
parse_resume_keywords(resume) ==
    IF ~resume.exists THEN EmptyDict
    ELSE IF ~resume.readable THEN EmptyDict
    ELSE LET text_lower == Lower(resume.text)
             InText(term) == Contains(term, text_lower)
         IN  Keywords(SelectSeq(DEFAULT_SKILLS, InText), SelectSeq(DEFAULT_ROLES, InText))

\* ------------------------------------------------------------------------
\* Job store (db_manager.py): the rows of table jobs, in insertion order
\* ------------------------------------------------------------------------

\* the UNIQUE constraint on url rejects the row (NULL urls never collide)
IntegrityError(rows, job) == job.url # NoneStr /\ \E i \in DOMAIN rows : rows[i].url = job.url

\* a store that has no UNIQUE constraint
save_job_listing_NoUnique(rows, job) == [rows |-> Append(rows, job), saved |-> TRUE]

\* save_job_listing(job_data): the table afterwards and the value returned
save_job_listing(rows, job) ==
    IF IntegrityError(rows, job)
    THEN [rows |-> rows, saved |-> FALSE]
    ELSE [rows |-> Append(rows, job), saved |-> TRUE]

\* a query that finds no row
get_all_job_urls_NoRows(rows) == {}

\* a query that selects the title column
get_all_job_urls_Titles(rows) == {rows[i].title : i \in DOMAIN rows}

\* get_all_job_urls()
get_all_job_urls(rows) == {rows[i].url : i \in DOMAIN rows}

\* ------------------------------------------------------------------------
\* The web as the model explores it: resumes, pages, cards and listings
\* ------------------------------------------------------------------------

t_Python_Django_Backend_Developer == <<"P","y","t","h","o","n"," ","D","j","a","n","g","o"," ","B","a","c","k","e","n","d"," ","D","e","v","e","l","o","p","e","r">>
t_Python_Backend_Developer_padded == <<" "," ","P","y","t","h","o","n"," ","D","j","a","n","g","o"," ","B","a","c","k","e","n","d"," ","D","e","v","e","l","o","p","e","r"," ">>
l_Geneva == <<"G","e","n","e","v","a">>
p_python_django_aws == <<"p","y","t","h","o","n"," ","d","j","a","n","g","o"," ","a","w","s">>
p_international == <<"i","n","t","e","r","n","a","t","i","o","n","a","l">>
p_blank == <<" "," "," ">>
p_Python_AWS_Flask == <<" ","P","y","t","h","o","n"," ","A","W","S"," ","F","l","a","s","k"," ">>
r_backend == <<"B","a","c","k","e","n","d"," ","D","e","v","e","l","o","p","e","r","."," ","P","y","t","h","o","n",","," ","D","j","a","n","g","o",","," ","A","W","S",".">>
r_digital == <<"D","I","G","I","T","A","L"," ","C","l","o","u","d"," ","E","n","g","i","n","e","e","r","."," ","R","E","S","T"," ","A","P","I",","," ","L","i","n","u","x">>
r_chef == <<"C","h","e","f">>
h_vacancy_1 == <<"/","v","a","c","a","n","c","i","e","s","/","1">>
h_vacancy_2 == <<"/","v","a","c","a","n","c","i","e","s","/","2">>
h_vacancy_3 == <<"/","v","a","c","a","n","c","i","e","s","/","3">>
h_job_1 == <<"/","j","o","b","/","1">>
h_job_2 == <<"/","j","o","b","/","2">>
h_job_3 == <<"/","j","o","b","/","3">>
h_jobs_1 == <<"/","j","o","b","s","/","1">>
h_jobs_2 == <<"/","j","o","b","s","/","2">>
h_jobs_3 == <<"/","j","o","b","s","/","3">>
u_apply_1 == <<"h","t","t","p","s",":","/","/","a","p","p","l","y",".","e","x","a","m","p","l","e","/","1">>
u_ms_1 == <<"h","t","t","p","s",":","/","/","m","s",".","e","x","a","m","p","l","e","/","1">>
u_ms_2 == <<"h","t","t","p","s",":","/","/","m","s",".","e","x","a","m","p","l","e","/","2">>
u_ms_3 == <<"h","t","t","p","s",":","/","/","m","s",".","e","x","a","m","p","l","e","/","3">>

\* a resume file
Resume(exists, readable, text) == [exists |-> exists, readable |-> readable, text |-> text]

ResumeUniverse == {Resume(FALSE, FALSE, <<>>), Resume(TRUE, FALSE, <<>>),
                   Resume(TRUE, TRUE, r_backend), Resume(TRUE, TRUE, r_chef),
                   Resume(TRUE, TRUE, r_digital)}

\* an element with its text nodes
Element(strings) == [strings |-> strings]

\* a page
Page(status, specific, classed, broad, elements, main_content, body) ==
    [status |-> status, specific |-> specific, classed |-> classed, broad |-> broad,
     elements |-> elements, main_content |-> main_content, body |-> body]

\* a page that could not be fetched
page_failed == Page("RequestException", None, <<>>, <<>>, <<>>, NoneStr, <<>>)

\* a detail page with the site-specific description container
page_specific == Page("ok", Element(<<p_python_django_aws, p_blank, p_international>>),
                      <<>>, <<>>, <<>>, NoneStr, <<>>)

\* a rendered page with classed elements only
page_classed == Page("ok", None, <<<<p_Python_AWS_Flask>>, <<p_blank>>, <<p_international>>>>,
                     <<<<p_python_django_aws>>>>, <<p_Python_AWS_Flask>>, NoneStr,
                     p_Python_AWS_Flask)

\* the link of a card
TitleTag(text, href) == [text |-> text, href |-> href]

\* the response to a vacancy page
Vacancy(status, apply_href) == [status |-> status, apply_href |-> apply_href]

\* a date text
DateText(form, n, day) == [form |-> form, n |-> n, day |-> day]

\* a card
Card(raises, title_tag, company, location, date, vacancy, detail, rendered) ==
    [raises |-> raises, title_tag |-> title_tag, company |-> company, location |-> location,
     date |-> date, vacancy |-> vacancy, detail |-> detail, rendered |-> rendered]

\* a listing
Listing(status, cards) == [status |-> status, cards |-> cards]

\* the cards of the unjobs.org result page, in page order; the apply link of
\* the first two is not found, that of the third is
UnjobsCards ==
    <<Card(FALSE, TitleTag(t_Python_Django_Backend_Developer, h_vacancy_1), s_United_Nations,
           l_Remote, DateText("days_ago", 3, 0), Vacancy("ok", NoneStr), page_failed, page_failed),
      Card(FALSE, TitleTag(t_Python_Django_Backend_Developer, h_vacancy_3), c_Hope_Foundation,
           l_Home_Office, DateText("other", 0, 0), Vacancy("RequestException", NoneStr),
           page_failed, page_failed),
      Card(FALSE, TitleTag(t_Python_Backend_Developer_padded, h_vacancy_2), s_United_Nations,
           l_Remote_Worldwide, None, Vacancy("ok", u_apply_1), page_failed, page_failed),
      Card(FALSE, None, NoneStr, NoneStr, DateText("d_month_year", 0, 5),
           Vacancy("ok", NoneStr), page_failed, page_failed)>>

\* the rows of the careers.un.org result page, in page order
CareersCards ==
    <<Card(FALSE, TitleTag(t_Backend_Developer, h_job_1), NoneStr, l_Remote,
           DateText("period", 0, 7), Vacancy("ok", NoneStr), page_specific, page_failed),
      Card(FALSE, TitleTag(t_Accountant, h_job_2), NoneStr, l_Geneva,
           DateText("days_ago", 2, 0), Vacancy("ok", NoneStr), page_failed, page_failed),
      Card(TRUE, TitleTag(t_Backend_Developer, h_job_3), NoneStr, l_Remote, None,
           Vacancy("ok", NoneStr), page_specific, page_failed),
      Card(FALSE, TitleTag(t_Backend_Developer, NoneStr), NoneStr, l_Remote, None,
           Vacancy("ok", NoneStr), page_specific, page_failed)>>

\* the cards of the Wellfound result page, in page order
WellfoundCards ==
    <<Card(FALSE, TitleTag(t_Backend_Developer, h_jobs_1), c_Acme_Global_Inc, l_Remote, None,
           Vacancy("ok", NoneStr), page_failed, page_classed),
      Card(FALSE, None, c_Acme, NoneStr, None, Vacancy("ok", NoneStr), page_specific,
           page_classed),
      Card(FALSE, TitleTag(t_Backend_Developer, h_jobs_3), c_Acme_Corp, l_Remote_Worldwide, None,
           Vacancy("ok", NoneStr), page_specific, page_failed),
      Card(FALSE, TitleTag(t_Accountant, h_jobs_2), c_Acme, l_New_York, None,
           Vacancy("ok", NoneStr), page_failed, page_failed)>>

\* the cards of a rendered listing (Microsoft Careers, WFP Careers)
SeleniumCards ==
    <<Card(FALSE, TitleTag(t_Backend_Developer, u_ms_1), NoneStr, l_Remote, None,
           Vacancy("ok", NoneStr), page_failed, page_classed),
      Card(FALSE, TitleTag(t_WFH_Software_Engineer, u_ms_2), NoneStr, l_Geneva, None,
           Vacancy("ok", NoneStr), page_failed, page_classed),
      Card(FALSE, TitleTag(t_Accountant, u_ms_3), NoneStr, l_Geneva, None,
           Vacancy("ok", NoneStr), page_failed, page_failed),
      Card(FALSE, None, NoneStr, l_Geneva, None,
           Vacancy("ok", NoneStr), page_failed, page_failed)>>

\* the result pages a source may serve: none (the fetch fails), or the
\* first n cards
Listings(cards, max) ==
    {Listing("RequestException", <<>>)} \cup
    {Listing("ok", SubSeq(cards, 1, Min(n, Len(cards)))) : n \in 0..max}

\* a row that an earlier run stored: the first careers.un.org job
stored_row ==
    [title |-> t_Backend_Developer, company |-> s_United_Nations, location |-> l_Remote,
     url |-> s_careers_host \o h_job_1, description |-> p_python_django_aws,
     date_posted |-> 0, date_found |-> 0, relevance_score |-> 5]

\* ------------------------------------------------------------------------
\* Bounds of the explored runs
\* ------------------------------------------------------------------------

\* cards per result page
MaxCards == 2

\* ticks of the clock per day
TicksPerDay == 2

\* ticks that pass between two calls of the filter
MaxElapsed == 2

\* ------------------------------------------------------------------------
\* State
\* ------------------------------------------------------------------------

VARIABLES
    pc,                         \* position of the program
    MIN_SKILL_MATCHES,          \* config.MIN_SKILL_MATCHES
    today,                      \* datetime.date.today(), as a day number
    now,                        \* datetime.datetime.now(), in ticks of the clock
    resume_file,                \* the file at RESUME_PATH
    site,                       \* the result page each source serves
    db_at_start,                \* the rows of table jobs when the run started
    db,                         \* the rows of table jobs
    resume_keywords,            \* main: resume_keywords
    existing_job_urls,          \* main: existing_job_urls
    driver,                     \* main: driver (None or the session)
    sessions_opened,            \* number of webdriver.Chrome sessions created
    sessions_closed,            \* number of driver.quit() calls
    all_jobs,                   \* scrape_all_jobs: all_jobs, then main: all_jobs_found_this_run
    invoked,                    \* the adapters scrape_all_jobs has called, in call order
    idx,                        \* position of the for loop that is running
    job_data,                   \* the job record the filter was last called with
    filtered_job,               \* what filter_and_process_job last returned
    new_jobs_for_notification,  \* main: new_jobs_for_notification
    filter_calls,               \* positions of all_jobs passed to filter_and_process_job
    save_calls,                 \* records passed to save_job_listing, in call order
    notify_calls,               \* records passed to send_email_notification, in call order
    exc,                        \* the exception that ended main, or "none"
    call,                       \* a scraper function called on its own: its name and arguments
    ret                         \* what that call returned

vars == <<pc, MIN_SKILL_MATCHES, today, now, resume_file, site, db_at_start, db, resume_keywords,
          existing_job_urls, driver, sessions_opened, sessions_closed, all_jobs, invoked, idx,
          job_data, filtered_job, new_jobs_for_notification, filter_calls, save_calls,
          notify_calls, exc, call, ret>>

\* the variables of main before it has run
MainNotStarted ==
    /\ existing_job_urls = {}
    /\ driver = None
    /\ sessions_opened = 0
    /\ sessions_closed = 0
    /\ all_jobs = <<>>
    /\ invoked = <<>>
    /\ idx = 1
    /\ new_jobs_for_notification = <<>>
    /\ filter_calls = <<>>
    /\ save_calls = <<>>
    /\ notify_calls = <<>>
    /\ exc = "none"
    /\ call = None
    /\ ret = None

\* the Selenium session get_selenium_driver returns
TheDriver == [session |-> "chrome"]

\* ------------------------------------------------------------------------
\* The relevance filter applied to one job and one keyword set
\* ------------------------------------------------------------------------

InitFilter ==
    /\ pc = "filter_call"
    /\ MIN_SKILL_MATCHES \in 0..MaxThreshold
    /\ today = 1
    /\ now = today * TicksPerDay
    /\ resume_file = Resume(TRUE, TRUE, <<>>)
    /\ site = [unjobs |-> Listing("ok", <<>>), careers |-> Listing("ok", <<>>),
               wellfound |-> Listing("ok", <<>>), microsoft |-> Listing("ok", <<>>),
               wfp |-> Listing("ok", <<>>)]
    /\ db = <<>>
    /\ db_at_start = db
    /\ resume_keywords \in KeywordUniverse
    /\ job_data \in JobUniverse
    /\ filtered_job = None
    /\ MainNotStarted

\* one call of filter_and_process_job(job_data, resume_keywords)
CallFilter ==
    /\ pc = "filter_call"
    /\ filtered_job' = filter_and_process_job(job_data, resume_keywords, MIN_SKILL_MATCHES,
                                              today, now)
    /\ pc' = "filter_return"
    /\ UNCHANGED <<call, ret, MIN_SKILL_MATCHES, today, now, resume_file, site, db_at_start, db, resume_keywords,
                   existing_job_urls, driver, sessions_opened, sessions_closed, all_jobs,
                   invoked, idx, job_data, new_jobs_for_notification, filter_calls, save_calls,
                   notify_calls, exc>>

\* a second call of filter_and_process_job with the same arguments, some
\* ticks of the clock later
CallFilterAgain ==
    /\ pc = "filter_return"
    /\ \E elapsed \in 0..MaxElapsed :
           /\ now' = now + elapsed
           /\ today' = now' \div TicksPerDay
           /\ call' = [kind |-> "filter", elapsed |-> elapsed]
           /\ ret' = filter_and_process_job(job_data, resume_keywords, MIN_SKILL_MATCHES,
                                            today', now')
    /\ pc' = "filter_again"
    /\ UNCHANGED <<MIN_SKILL_MATCHES, resume_file, site, db_at_start, db, resume_keywords,
                   existing_job_urls, driver, sessions_opened, sessions_closed, all_jobs,
                   invoked, idx, job_data, filtered_job, new_jobs_for_notification,
                   filter_calls, save_calls, notify_calls, exc>>

NextFilter == CallFilter \/ CallFilterAgain

SpecFilter == InitFilter /\ [][NextFilter]_vars

\* ------------------------------------------------------------------------
\* One run of main() (main.py) with scrape_all_jobs (job_scraper.py)
\* ------------------------------------------------------------------------

Init ==
    /\ pc = "main_start"
    /\ MIN_SKILL_MATCHES \in {2, 3}
    /\ today = 10
    /\ now = today * TicksPerDay
    /\ resume_file \in ResumeUniverse
    /\ site \in [unjobs : Listings(UnjobsCards, MaxCards),
                 careers : Listings(CareersCards, MaxCards),
                 wellfound : Listings(WellfoundCards, MaxCards),
                 microsoft : {Listing("ok", SubSeq(SeleniumCards, 1, MaxCards))},
                 wfp : {Listing("ok", SubSeq(SeleniumCards, 1, MaxCards))}]
    /\ db \in {<<>>, <<stored_row>>}
    /\ db_at_start = db
    /\ resume_keywords = EmptyDict
    /\ job_data = None
    /\ filtered_job = None
    /\ MainNotStarted

\* main.py lines 162-170: setup_database() creates the table if it is not
\* there, the resume is parsed, and main returns when no keywords came back
ParseResume ==
    /\ pc = "main_start"
    /\ resume_keywords' = parse_resume_keywords(resume_file)
    /\ pc' = IF resume_keywords' = EmptyDict THEN "done" ELSE "get_urls"
    /\ UNCHANGED <<call, ret, MIN_SKILL_MATCHES, today, now, resume_file, site, db_at_start, db,
                   existing_job_urls, driver, sessions_opened, sessions_closed, all_jobs, invoked, idx, job_data,
                   filtered_job, new_jobs_for_notification, filter_calls, save_calls,
                   notify_calls, exc>>

\* main.py lines 172-177
GetExistingUrls ==
    /\ pc = "get_urls"
    /\ existing_job_urls' = get_all_job_urls(db)
    /\ pc' = "get_driver"
    /\ UNCHANGED <<call, ret, MIN_SKILL_MATCHES, today, now, resume_file, site, db_at_start, db, resume_keywords, driver,
                   sessions_opened, sessions_closed, all_jobs, invoked, idx, job_data,
                   filtered_job, new_jobs_for_notification, filter_calls, save_calls,
                   notify_calls, exc>>

\* main.py lines 179-186 with get_selenium_driver (selenium_scraper.py lines
\* 25-54): Chrome starts, or WebDriverException makes get_selenium_driver
\* return None, or another exception is caught by main
GetDriver ==
    /\ pc = "get_driver"
    /\ \E outcome \in {"ok", "WebDriverException", "Exception"} :
          IF outcome = "ok"
          THEN driver' = TheDriver /\ sessions_opened' = sessions_opened + 1
          ELSE driver' = None /\ sessions_opened' = sessions_opened
    /\ pc' = "scrape_unjobs"
    /\ UNCHANGED <<call, ret, MIN_SKILL_MATCHES, today, now, resume_file, site, db_at_start, db, resume_keywords,
                   existing_job_urls, sessions_closed, all_jobs, invoked, idx, job_data,
                   filtered_job, new_jobs_for_notification, filter_calls, save_calls,
                   notify_calls, exc>>

\* what every step of scrape_all_jobs leaves alone
ScrapeFrame ==
    UNCHANGED <<call, ret, MIN_SKILL_MATCHES, today, now, resume_file, site, db_at_start, db, resume_keywords,
                existing_job_urls, driver, sessions_opened, sessions_closed, idx, job_data,
                filtered_job, new_jobs_for_notification, filter_calls, save_calls,
                notify_calls>>

\* job_scraper.py lines 521-525
ScrapeUnjobs ==
    /\ pc = "scrape_unjobs"
    /\ all_jobs' = all_jobs \o scrape_unjobs_org(site.unjobs, today)
    /\ invoked' = Append(invoked, "unjobs.org")
    /\ pc' = "scrape_careers"
    /\ exc' = exc
    /\ ScrapeFrame

\* job_scraper.py lines 527-531
ScrapeCareers ==
    /\ pc = "scrape_careers"
    /\ all_jobs' = all_jobs \o scrape_careers_un_org(site.careers, today)
    /\ invoked' = Append(invoked, "careers.un.org")
    /\ pc' = "scrape_wellfound"
    /\ exc' = exc
    /\ ScrapeFrame

\* job_scraper.py lines 533-535
ScrapeWellfound ==
    /\ pc = "scrape_wellfound"
    /\ all_jobs' = all_jobs \o scrape_wellfound(driver, site.wellfound, today)
    /\ invoked' = Append(invoked, "Wellfound")
    /\ pc' = "scrape_linkedin"
    /\ exc' = exc
    /\ ScrapeFrame

\* job_scraper.py lines 537-542 and main.py lines 194-201: the stub, the
\* return to main and the start of the filter loop
ScrapeLinkedin ==
    /\ pc = "scrape_linkedin"
    /\ all_jobs' = all_jobs \o scrape_linkedin_jobs
    /\ invoked' = Append(invoked, "LinkedIn")
    /\ pc' = "filter"
    /\ exc' = exc
    /\ ScrapeFrame

\* the adapter scrape_all_jobs is about to call
NextAdapter ==
    CASE pc = "scrape_unjobs" -> "unjobs.org"
      [] pc = "scrape_careers" -> "careers.un.org"
      [] pc = "scrape_wellfound" -> "Wellfound"
      [] OTHER -> "none"

\* An adapter raises an exception that none of its handlers catches (from
\* the statements before its try block, job_scraper.py lines 133-149,
\* 287-289, 393-404, from a handler itself, or a BaseException).
\* scrape_all_jobs (lines 509-542) and main (lines 194-196) have no handler:
\* the exception ends the run.
AdapterRaises ==
    /\ pc \in {"scrape_unjobs", "scrape_careers", "scrape_wellfound"}
    /\ invoked' = Append(invoked, NextAdapter)
    /\ exc' = "adapter"
    /\ pc' = "failed"
    /\ all_jobs' = all_jobs
    /\ ScrapeFrame

\* the iteration without the duplicate check of lines 204-206
FilterJob_NoDedup ==
    /\ pc = "filter"
    /\ idx <= Len(all_jobs)
    /\ LET job == all_jobs[idx]
           result == filter_and_process_job(job, resume_keywords, MIN_SKILL_MATCHES,
                                            today, now)
       IN  /\ job_data' = job
           /\ filtered_job' = result
           /\ filter_calls' = Append(filter_calls, idx)
           /\ IF result # None
              THEN /\ db' = save_job_listing(db, result).rows
                   /\ save_calls' = Append(save_calls, result)
                   /\ new_jobs_for_notification' = Append(new_jobs_for_notification, result)
              ELSE UNCHANGED <<db, save_calls, new_jobs_for_notification>>
    /\ idx' = idx + 1
    /\ UNCHANGED <<pc, call, ret, MIN_SKILL_MATCHES, today, now, resume_file, site, db_at_start,
                   resume_keywords, existing_job_urls, driver, sessions_opened,
                   sessions_closed, all_jobs, invoked, notify_calls, exc>>

\* one iteration of the loop of main.py lines 202-214
FilterJob ==
    /\ pc = "filter"
    /\ idx <= Len(all_jobs)
    /\ LET job == all_jobs[idx]
           result == filter_and_process_job(job, resume_keywords, MIN_SKILL_MATCHES,
                                            today, now)
       IN  IF job.url \in existing_job_urls
           THEN UNCHANGED <<db, job_data, filtered_job, new_jobs_for_notification,
                            filter_calls, save_calls>>
           ELSE /\ job_data' = job
                /\ filtered_job' = result
                /\ filter_calls' = Append(filter_calls, idx)
                /\ IF result # None
                   THEN /\ db' = save_job_listing(db, result).rows
                        /\ save_calls' = Append(save_calls, result)
                        /\ new_jobs_for_notification' =
                               Append(new_jobs_for_notification, result)
                   ELSE UNCHANGED <<db, save_calls, new_jobs_for_notification>>
    /\ idx' = idx + 1
    /\ UNCHANGED <<pc, call, ret, MIN_SKILL_MATCHES, today, now, resume_file, site, db_at_start, resume_keywords,
                   existing_job_urls, driver, sessions_opened, sessions_closed, all_jobs,
                   invoked, notify_calls, exc>>

\* the same iteration when save_job_listing raises: it catches only
\* sqlite3.IntegrityError (db_manager.py lines 52-55), and main has no
\* handler around the loop
SaveRaises ==
    /\ pc = "filter"
    /\ idx <= Len(all_jobs)
    /\ LET job == all_jobs[idx]
           result == filter_and_process_job(job, resume_keywords, MIN_SKILL_MATCHES,
                                            today, now)
       IN  /\ job.url \notin existing_job_urls
           /\ result # None
           /\ job_data' = job
           /\ filtered_job' = result
           /\ filter_calls' = Append(filter_calls, idx)
           /\ save_calls' = Append(save_calls, result)
    /\ exc' = "sqlite3.OperationalError"
    /\ pc' = "failed"
    /\ UNCHANGED <<call, ret, MIN_SKILL_MATCHES, today, now, resume_file, site, db_at_start, db, resume_keywords,
                   existing_job_urls, driver, sessions_opened, sessions_closed, all_jobs,
                   invoked, idx, new_jobs_for_notification, notify_calls>>

\* the loop of main.py lines 202-214 is over
EndFilterLoop ==
    /\ pc = "filter"
    /\ idx > Len(all_jobs)
    /\ pc' = "notify"
    /\ idx' = 1
    /\ UNCHANGED <<call, ret, MIN_SKILL_MATCHES, today, now, resume_file, site, db_at_start, db, resume_keywords,
                   existing_job_urls, driver, sessions_opened, sessions_closed, all_jobs,
                   invoked, job_data, filtered_job, new_jobs_for_notification, filter_calls,
                   save_calls, notify_calls, exc>>

\* one iteration of the loop of main.py lines 221-222; send_email_notification
\* (lines 33-73) sends or skips, and catches what sending raises
Notify ==
    /\ pc = "notify"
    /\ idx <= Len(new_jobs_for_notification)
    /\ notify_calls' = Append(notify_calls, new_jobs_for_notification[idx])
    /\ idx' = idx + 1
    /\ UNCHANGED <<pc, call, ret, MIN_SKILL_MATCHES, today, now, resume_file, site, db_at_start, db, resume_keywords,
                   existing_job_urls, driver, sessions_opened, sessions_closed, all_jobs,
                   invoked, job_data, filtered_job, new_jobs_for_notification, filter_calls,
                   save_calls, exc>>

\* main.py lines 226-233
QuitDriver ==
    /\ pc = "notify"
    /\ idx > Len(new_jobs_for_notification)
    /\ sessions_closed' = IF driver # None THEN sessions_closed + 1 ELSE sessions_closed
    /\ pc' = "done"
    /\ UNCHANGED <<call, ret, MIN_SKILL_MATCHES, today, now, resume_file, site, db_at_start, db, resume_keywords,
                   existing_job_urls, driver, sessions_opened, all_jobs, invoked, idx,
                   job_data, filtered_job, new_jobs_for_notification, filter_calls, save_calls,
                   notify_calls, exc>>

Next ==
    \/ ParseResume
    \/ GetExistingUrls
    \/ GetDriver
    \/ ScrapeUnjobs
    \/ ScrapeCareers
    \/ ScrapeWellfound
    \/ ScrapeLinkedin
    \/ AdapterRaises
    \/ FilterJob
    \/ SaveRaises
    \/ EndFilterLoop
    \/ Notify
    \/ QuitDriver

Spec == Init /\ [][Next]_vars

\* ------------------------------------------------------------------------
\* main() run twice in a row on the same store, resume and site content
\* ------------------------------------------------------------------------

\* the runs of Init with threshold 2 and one card on
\* careers.un.org
InitRerun ==
    /\ Init
    /\ MIN_SKILL_MATCHES = 2
    /\ site.careers = Listing("ok", SubSeq(CareersCards, 1, 1))

\* main is started a second time, at once or MaxElapsed ticks of the clock
\* after the first run ended (main.py lines 157-233 from the top): the locals of main start
\* afresh, the database file is what the first run left
RunAgain ==
    /\ pc \in {"done", "failed"}
    /\ call = None
    /\ call' = [kind |-> "main",
                previous |-> [pc |-> pc, driver |-> driver,
                              accepted_urls |-> {save_calls[i].url : i \in DOMAIN save_calls}]]
    /\ \E elapsed \in {0, MaxElapsed} :
           /\ now' = now + elapsed
           /\ today' = now' \div TicksPerDay
    /\ pc' = "main_start"
    /\ db_at_start' = db
    /\ resume_keywords' = EmptyDict
    /\ existing_job_urls' = {}
    /\ driver' = None
    /\ sessions_opened' = 0
    /\ sessions_closed' = 0
    /\ all_jobs' = <<>>
    /\ invoked' = <<>>
    /\ idx' = 1
    /\ job_data' = None
    /\ filtered_job' = None
    /\ new_jobs_for_notification' = <<>>
    /\ filter_calls' = <<>>
    /\ save_calls' = <<>>
    /\ notify_calls' = <<>>
    /\ exc' = "none"
    /\ UNCHANGED <<ret, MIN_SKILL_MATCHES, resume_file, site, db>>

NextRerun == Next \/ RunAgain

SpecRerun == InitRerun /\ [][NextRerun]_vars

\* ------------------------------------------------------------------------
\* The description extractors and the adapters, each called on its own with
\* pages whose texts reach and exceed the slice bound
\* ------------------------------------------------------------------------

\* a text of n characters
LongText(n) == [i \in 1..n |-> "x"]

\* the site-specific container holds one character more than the bound
page_long_specific ==
    Page("ok", Element(<<LongText(DESCRIPTION_LIMIT + 1)>>), <<>>, <<>>,
         <<LongText(DESCRIPTION_LIMIT + 1)>>, NoneStr, <<>>)

\* two classed elements of the bound's length each
page_long_classed ==
    Page("ok", None, <<<<LongText(DESCRIPTION_LIMIT)>>, <<LongText(DESCRIPTION_LIMIT)>>>>, <<>>,
         <<LongText(DESCRIPTION_LIMIT - 1), p_international>>, NoneStr, <<>>)

\* only the broad sweep and the body text find the long text
page_long_broad ==
    Page("ok", None, <<>>, <<<<p_blank, LongText(DESCRIPTION_LIMIT + 1)>>>>, <<>>, NoneStr,
         LongText(DESCRIPTION_LIMIT + 1))

\* the main-content element holds the long text
page_long_main ==
    Page("ok", None, <<>>, <<>>, <<>>, LongText(DESCRIPTION_LIMIT + 1), <<>>)

\* a text of exactly the bound's length
page_exact ==
    Page("ok", Element(<<LongText(DESCRIPTION_LIMIT)>>), <<<<LongText(DESCRIPTION_LIMIT)>>>>,
         <<>>, <<LongText(DESCRIPTION_LIMIT)>>, NoneStr, <<>>)

\* a page whose text repeats the could-not-fetch sentinel
page_quotes_sentinel ==
    Page("ok", Element(<<s_na_requests, LongText(DESCRIPTION_LIMIT)>>), <<>>, <<>>, <<>>,
         NoneStr, s_na_requests)

\* the site-specific container is found and holds white space only, while
\* the classed elements and the broad sweep find text
page_specific_blank ==
    Page("ok", Element(<<p_blank>>), <<<<p_python_django_aws>>>>, <<<<p_international>>>>,
         <<>>, NoneStr, p_python_django_aws)

\* classed elements are found and hold white space only, while the broad
\* sweep finds text
page_classed_blank ==
    Page("ok", None, <<<<p_blank>>, <<>>>>, <<<<p_blank>>, <<p_python_django_aws>>>>,
         <<>>, NoneStr, p_python_django_aws)

\* an empty page
page_empty == Page("ok", None, <<>>, <<>>, <<>>, NoneStr, <<>>)

\* the wait of the driver times out
page_timeout == Page("TimeoutException", None, <<>>, <<>>, <<>>, NoneStr, <<>>)

\* parsing the page raises
page_parse_error == Page("Exception", None, <<>>, <<>>, <<>>, NoneStr, <<>>)

PageUniverse == {page_failed, page_timeout, page_parse_error, page_empty, page_specific,
                 page_classed, page_long_specific, page_long_classed, page_long_broad,
                 page_long_main, page_exact, page_quotes_sentinel, page_specific_blank,
                 page_classed_blank}

UrlUniverse == {NoneStr, <<>>, s_NA, u_apply_1}

DriverUniverse == {None, TheDriver}

\* a card with a link whose job pages are the given ones
LinkedCard(href, detail, rendered) ==
    Card(FALSE, TitleTag(t_Backend_Developer, href), c_Acme_Global_Inc, l_Remote, None,
         Vacancy("ok", u_apply_1), detail, rendered)

\* result pages whose job pages hold long texts
LongCardsUniverse ==
    {<<LinkedCard(h_jobs_1, page_long_specific, page_long_classed),
       LinkedCard(h_jobs_2, page_failed, page_long_classed),
       LinkedCard(h_jobs_3, page_long_broad, page_failed)>>,
     <<LinkedCard(h_jobs_1, page_failed, page_long_broad),
       LinkedCard(h_jobs_2, page_quotes_sentinel, page_long_main),
       LinkedCard(NoneStr, page_long_specific, page_long_classed)>>,
     <<LinkedCard(NoneStr, page_exact, page_exact),
       LinkedCard(h_jobs_2, page_exact, page_exact),
       LinkedCard(h_jobs_3, page_long_classed, page_long_main)>>}

\* the ways the fetch of a result page fails: the transport fails, the server
\* answers with an error status (raise_for_status raises although the body
\* holds cards), the wait of the driver times out, the driver fails
FailedListings(cards) ==
    {Listing("ConnectionError", <<>>), Listing("HTTPError", SubSeq(cards, 1, 1)),
     Listing("TimeoutException", <<>>), Listing("WebDriverException", SubSeq(cards, 1, 1))}

\* the result pages an adapter is called with
ScrapeListings(cards) ==
    Listings(cards, MaxCards) \cup FailedListings(cards) \cup
    UNION {Listings(long, MaxCards) : long \in LongCardsUniverse}

\* the card without its title element
WithoutTitle(card) == [card EXCEPT !.title_tag = None]

\* the card whose fields cannot be read: reading one raises
Raising(card) == [card EXCEPT !.raises = TRUE]

\* result pages of five cards whose third card is broken
IsolationListings(a, b) ==
    {Listing("ok", <<a, b, WithoutTitle(a), b, a>>),
     Listing("ok", <<a, b, Raising(b), b, a>>)}

\* the date texts of a card: none, "N days ago" for a day within reach and
\* for a day before datetime.date.min, the two absolute forms, a posting
\* period, and a text of no known form
DateUniverse ==
    {None, DateText("days_ago", 3, 0), DateText("days_ago", today + 1, 0),
     DateText("month_d_year", 0, 4), DateText("d_month_year", 0, 5),
     DateText("period", 0, 7), DateText("other", 0, 0)}

\* result pages of one card, one for each date text
DateListings(card) == {Listing("ok", <<[card EXCEPT !.date = d]>>) : d \in DateUniverse}

\* everything but pc, call and ret
main_vars ==
    <<MIN_SKILL_MATCHES, today, now, resume_file, site, db_at_start, db, resume_keywords,
      existing_job_urls, driver, sessions_opened, sessions_closed, all_jobs, invoked, idx,
      job_data, filtered_job, new_jobs_for_notification, filter_calls, save_calls,
      notify_calls, exc>>

InitScrape ==
    /\ pc = "scrape_call"
    /\ MIN_SKILL_MATCHES = 2
    /\ today = 10
    /\ now = today * TicksPerDay
    /\ resume_file = Resume(TRUE, TRUE, <<>>)
    /\ site = [unjobs |-> Listing("ok", <<>>), careers |-> Listing("ok", <<>>),
               wellfound |-> Listing("ok", <<>>), microsoft |-> Listing("ok", <<>>),
               wfp |-> Listing("ok", <<>>)]
    /\ db = <<>>
    /\ db_at_start = db
    /\ resume_keywords = EmptyDict
    /\ job_data = None
    /\ filtered_job = None
    /\ MainNotStarted

\* a call of an extractor returns the description
ReturnExtractor(fn, d, url, page, value) ==
    /\ call' = [kind |-> "extractor", fn |-> fn, driver |-> d, job_url |-> url, page |-> page]
    /\ ret' = value
    /\ pc' = "scrape_return"
    /\ UNCHANGED main_vars

\* a call of an adapter returns its jobs
ReturnAdapter(fn, d, listing, value) ==
    /\ call' = [kind |-> "adapter", fn |-> fn, driver |-> d, listing |-> listing]
    /\ ret' = value
    /\ pc' = "scrape_return"
    /\ UNCHANGED main_vars

\* job_scraper.fetch_full_description_requests(job_url)
Call_fetch_full_description_requests ==
    /\ pc = "scrape_call"
    /\ \E url \in UrlUniverse, page \in PageUniverse :
           ReturnExtractor("fetch_full_description_requests", None, url, page,
                           fetch_full_description_requests(url, page))

\* job_scraper.fetch_full_description_selenium(driver, job_url)
Call_fetch_full_description_selenium ==
    /\ pc = "scrape_call"
    /\ \E d \in DriverUniverse, url \in UrlUniverse, page \in PageUniverse :
           ReturnExtractor("job_scraper.fetch_full_description_selenium", d, url, page,
                           fetch_full_description_selenium(d, url, page))

\* selenium_scraper.fetch_full_description_selenium(driver, job_url)
Call_selenium_scraper_fetch_full_description_selenium ==
    /\ pc = "scrape_call"
    /\ \E d \in DriverUniverse, url \in UrlUniverse, page \in PageUniverse :
           ReturnExtractor("selenium_scraper.fetch_full_description_selenium", d, url, page,
                           selenium_scraper_fetch_full_description_selenium(d, url, page))

\* job_scraper.scrape_unjobs_org(query)
Call_scrape_unjobs_org ==
    /\ pc = "scrape_call"
    /\ \E listing \in ScrapeListings(UnjobsCards)
                       \cup IsolationListings(UnjobsCards[1], UnjobsCards[3])
                       \cup DateListings(UnjobsCards[1]) :
           ReturnAdapter("scrape_unjobs_org", None, listing, scrape_unjobs_org(listing, today))

\* job_scraper.scrape_careers_un_org()
Call_scrape_careers_un_org ==
    /\ pc = "scrape_call"
    /\ \E listing \in ScrapeListings(CareersCards)
                       \cup IsolationListings(CareersCards[1], CareersCards[2])
                       \cup DateListings(CareersCards[1]) :
           ReturnAdapter("scrape_careers_un_org", None, listing,
                         scrape_careers_un_org(listing, today))

\* job_scraper.scrape_wellfound(driver, query)
Call_scrape_wellfound ==
    /\ pc = "scrape_call"
    /\ \E d \in DriverUniverse,
          listing \in ScrapeListings(WellfoundCards)
                       \cup IsolationListings(WellfoundCards[1], WellfoundCards[3]) :
           ReturnAdapter("scrape_wellfound", d, listing, scrape_wellfound(d, listing, today))

\* selenium_scraper.scrape_microsoft_careers(driver, query_params)
Call_scrape_microsoft_careers ==
    /\ pc = "scrape_call"
    /\ \E d \in DriverUniverse,
          listing \in ScrapeListings(SeleniumCards)
                       \cup IsolationListings(SeleniumCards[1], SeleniumCards[2]) :
           ReturnAdapter("scrape_microsoft_careers", d, listing,
                         scrape_microsoft_careers(d, listing, today))

\* selenium_scraper.scrape_wfp_careers(driver, keywords)
Call_scrape_wfp_careers ==
    /\ pc = "scrape_call"
    /\ \E d \in DriverUniverse,
          listing \in ScrapeListings(SeleniumCards)
                       \cup IsolationListings(SeleniumCards[1], SeleniumCards[2]) :
           ReturnAdapter("scrape_wfp_careers", d, listing,
                         scrape_wfp_careers(d, listing, today))

NextScrape ==
    \/ Call_fetch_full_description_requests
    \/ Call_fetch_full_description_selenium
    \/ Call_selenium_scraper_fetch_full_description_selenium
    \/ Call_scrape_unjobs_org
    \/ Call_scrape_careers_un_org
    \/ Call_scrape_wellfound
    \/ Call_scrape_microsoft_careers
    \/ Call_scrape_wfp_careers

SpecScrape == InitScrape /\ [][NextScrape]_vars

\* ------------------------------------------------------------------------
\* The job store called on its own: a sequence of save_job_listing calls
\* ------------------------------------------------------------------------

\* rows of table jobs the explored sequences stop at
MaxRows == 4

\* the record of a second unjobs.org card whose apply link was not found
job_no_apply_link ==
    Job(t_Python_Django_Backend_Developer, c_Hope_Foundation, l_Remote, s_NA, s_placeholder, 3)

\* the scored records the store is called with: what the filter returns for
\* the jobs of the universe, among them records that share a url
ScoredUniverse ==
    {filter_and_process_job(job, kw_example, 2, 10, 20) :
         job \in JobUniverse \cup {[job_un EXCEPT !.url = s_NA], job_no_apply_link}}
    \ {None}

InitStore ==
    /\ pc = "store_call"
    /\ MIN_SKILL_MATCHES = 2
    /\ today = 10
    /\ now = today * TicksPerDay
    /\ resume_file = Resume(TRUE, TRUE, <<>>)
    /\ site = [unjobs |-> Listing("ok", <<>>), careers |-> Listing("ok", <<>>),
               wellfound |-> Listing("ok", <<>>), microsoft |-> Listing("ok", <<>>),
               wfp |-> Listing("ok", <<>>)]
    /\ db \in {<<>>, <<stored_row>>}
    /\ db_at_start = db
    /\ resume_keywords = EmptyDict
    /\ job_data = None
    /\ filtered_job = None
    /\ MainNotStarted

\* save_job_listing(job_data)
Call_save_job_listing ==
    /\ pc \in {"store_call", "store_return"}
    /\ Len(db) < MaxRows
    /\ \E job \in ScoredUniverse :
           LET result == save_job_listing(db, job)
           IN  /\ call' = [kind |-> "save_job_listing", job_data |-> job, rows |-> db]
               /\ db' = result.rows
               /\ ret' = result.saved
    /\ pc' = "store_return"
    /\ UNCHANGED <<MIN_SKILL_MATCHES, today, now, resume_file, site, db_at_start,
                   resume_keywords, existing_job_urls, driver, sessions_opened,
                   sessions_closed, all_jobs, invoked, idx, job_data, filtered_job,
                   new_jobs_for_notification, filter_calls, save_calls, notify_calls, exc>>

NextStore == Call_save_job_listing

SpecStore == InitStore /\ [][NextStore]_vars

\* ------------------------------------------------------------------------
\* The acceptance predicate and the score as section 4.5 states them:
\* case-insensitive substring tests on title, company, location, description
\* ------------------------------------------------------------------------

\* is_remote as stated
StatedRemote(job) ==
    \/ Contains(kw_remote, Lower(job.location))
    \/ Contains(kw_work_from_home, Lower(job.title))
    \/ Contains(kw_worldwide, Lower(job.location))
    \/ Contains(kw_home_office, Lower(job.location))

\* is_international as stated
StatedInternational(job) ==
    \/ \E k \in {kw_global, kw_international, kw_inc, kw_corp} :
           Contains(k, Lower(job.company))
    \/ \E k \in {kw_global, kw_international, kw_worldwide} :
           Contains(k, Lower(job.description))

\* is_ngo as stated
StatedNgo(job) ==
    \E k \in {kw_ngo, kw_non_profit, kw_foundation, kw_charity, kw_united_nations, kw_wfp} :
        Contains(k, Lower(job.company)) \/ Contains(k, Lower(job.description))

\* role_match as stated
StatedRoleMatch(job, keywords) ==
    \E r \in Range(keywords.roles) :
        Contains(r, Lower(job.title)) \/ Contains(r, Lower(job.description))

\* the number of distinct resume skill terms found in title or description
StatedSkillsCount(job, keywords) ==
    Cardinality({s \in Range(keywords.skills) :
                    Contains(s, Lower(job.title)) \/ Contains(s, Lower(job.description))})

\* Accept as stated
StatedAccept(job, keywords, threshold) ==
    /\ StatedRemote(job)
    /\ StatedRoleMatch(job, keywords)
    /\ StatedSkillsCount(job, keywords) >= threshold
    /\ (StatedInternational(job) \/ StatedNgo(job))

\* ------------------------------------------------------------------------
\* Claims about the relevance filter (specification SpecFilter)
\* ------------------------------------------------------------------------

\* the call of the fixed accept example has returned
FixedExampleReturned ==
    /\ pc = "filter_return"
    /\ job_data = job_example
    /\ resume_keywords = kw_example
    /\ MIN_SKILL_MATCHES = 2

\* C1: for the fixed example job with roles ["backend developer"], skills
\* ["python","django","aws"] and threshold 2 the filter accepts the job and
\* its relevance_score is 4 (3 skills + 0 for NGO + 1 for international).
C1_FixedExampleScoreIs4 ==
    FixedExampleReturned => (filtered_job # None /\ filtered_job.relevance_score = 4)

\* C2: the filter returns a scored record if and only if is_remote AND
\* role_match AND skills_match_count >= threshold AND (is_international OR
\* is_ngo); the example moved to New York is rejected, and two matching skill
\* terms are rejected under threshold 3.
C2_AcceptIffPredicate ==
    pc = "filter_return" =>
        /\ (filtered_job # None) <=> StatedAccept(job_data, resume_keywords, MIN_SKILL_MATCHES)
        /\ job_data = job_not_remote => filtered_job = None
        /\ (StatedSkillsCount(job_data, resume_keywords) = 2 /\ MIN_SKILL_MATCHES = 3)
               => filtered_job = None

\* C2 witness: a remote, international job of a matching role with two skill
\* terms has been rejected under threshold 3
C2_Witness ==
    /\ pc = "filter_return"
    /\ job_data = job_two_skills
    /\ resume_keywords = kw_example
    /\ MIN_SKILL_MATCHES = 3
    /\ StatedSkillsCount(job_data, resume_keywords) = 2
    /\ StatedRemote(job_data)
    /\ StatedRoleMatch(job_data, resume_keywords)
    /\ StatedInternational(job_data)
    /\ filtered_job = None

\* C3: an accepted job's relevance_score is skills_match_count + 2 if NGO
\* + 1 if international, a non-negative integer; three skills score 5 for an
\* NGO-only job and 4 for an international-only job.
C3_ScoreFormula ==
    (pc = "filter_return" /\ filtered_job # None) =>
        LET count == StatedSkillsCount(job_data, resume_keywords)
            ngo == StatedNgo(job_data)
            international == StatedInternational(job_data)
        IN  /\ filtered_job.relevance_score =
                   count + (IF ngo THEN 2 ELSE 0) + (IF international THEN 1 ELSE 0)
            /\ filtered_job.relevance_score \in Nat
            /\ (count = 3 /\ ngo /\ ~international) => filtered_job.relevance_score = 5
            /\ (count = 3 /\ ~ngo /\ international) => filtered_job.relevance_score = 4

\* C3 witness: an NGO-only job with three skills has been scored 5
C3_Witness ==
    /\ pc = "filter_return"
    /\ filtered_job # None
    /\ StatedSkillsCount(job_data, resume_keywords) = 3
    /\ StatedNgo(job_data)
    /\ ~StatedInternational(job_data)
    /\ filtered_job.relevance_score = 5

\* ------------------------------------------------------------------------
\* Claims about one run of main (specification Spec)
\* ------------------------------------------------------------------------

\* the URLs of the rows the store held when the run started
StoredUrlsAtStart == {db_at_start[i].url : i \in DOMAIN db_at_start}

\* C4: a job record whose url is in the store's URL set at the start of the
\* run is never passed to filter_and_process_job nor to save_job_listing, and
\* no job record of the run reaches the filter twice.
C4_StoredUrlNeverFiltered ==
    /\ \A i \in DOMAIN filter_calls : all_jobs[filter_calls[i]].url \notin StoredUrlsAtStart
    /\ \A i \in DOMAIN save_calls : save_calls[i].url \notin StoredUrlsAtStart
    /\ \A i, j \in DOMAIN filter_calls : i # j => filter_calls[i] # filter_calls[j]

\* C4 witness: the run is over, a scraped job whose url was stored was
\* skipped and other jobs were filtered
C4_Witness ==
    /\ pc = "done"
    /\ filter_calls # <<>>
    /\ \E k \in DOMAIN all_jobs :
           all_jobs[k].url \in StoredUrlsAtStart /\ k \notin Range(filter_calls)

\* C5: when a source adapter raises an exception it does not handle,
\* scrape_all_jobs still returns: it goes on with the next adapter and the
\* run does not end with that exception.
C5_SourceIsolation ==
    exc = "adapter" =>
        pc \in {"scrape_careers", "scrape_wellfound", "scrape_linkedin", "filter", "notify",
                "done"}

\* C6: at most one Selenium session is acquired per run, and a run that
\* acquired one has released it when it ends, normally or by an exception.
C6_SessionReleased ==
    /\ sessions_opened <= 1
    /\ pc \in {"done", "failed"} => sessions_closed = sessions_opened

\* scrape_all_jobs has returned to main
ScrapeReturned == pc \in {"filter", "notify"} \/ (pc = "done" /\ resume_keywords # EmptyDict)

\* C7: scrape_all_jobs invokes unjobs.org, careers.un.org, Wellfound,
\* Microsoft Careers and WFP Careers exactly once each, in this order, and
\* returns the concatenation of their results in invocation order.
C7_FiveAdaptersOnce ==
    ScrapeReturned =>
        /\ invoked = <<"unjobs.org", "careers.un.org", "Wellfound", "Microsoft Careers",
                       "WFP Careers">>
        /\ all_jobs = scrape_unjobs_org(site.unjobs, today)
                      \o scrape_careers_un_org(site.careers, today)
                      \o scrape_wellfound(driver, site.wellfound, today)
                      \o scrape_microsoft_careers(driver, site.microsoft, today)
                      \o scrape_wfp_careers(driver, site.wfp, today)

\* the scored record r was made from the job record job
MadeFrom(r, job) ==
    /\ r.title = job.title
    /\ r.company = job.company
    /\ r.location = job.location
    /\ r.url = job.url
    /\ r.description = Lower(job.description)
    /\ r.date_posted = job.date_posted

\* the records passed to the store or to the notifier so far
Handled == Range(save_calls) \cup Range(notify_calls)

\* C8: a job the filter rejects yields None, and no rejected job is passed
\* to save_job_listing or to send_email_notification.
C8_RejectedNeverHandled ==
    /\ (filter_calls # <<>>
        /\ ~StatedAccept(job_data, resume_keywords, MIN_SKILL_MATCHES)) => filtered_job = None
    /\ \A r \in Handled :
           /\ r # None
           /\ \E k \in Range(filter_calls) : MadeFrom(r, all_jobs[k])
           /\ \A k \in DOMAIN all_jobs :
                  MadeFrom(r, all_jobs[k])
                      => StatedAccept(all_jobs[k], resume_keywords, MIN_SKILL_MATCHES)

\* C8 witness: the run is over, the filter rejected a job and accepted
\* another, which was stored and notified
C8_Witness ==
    /\ pc = "done"
    /\ notify_calls # <<>>
    /\ save_calls # <<>>
    /\ \E k \in Range(filter_calls) :
           ~StatedAccept(all_jobs[k], resume_keywords, MIN_SKILL_MATCHES)

\* the resume file is missing or pdfminer cannot parse it
ResumeUnusable == ~resume_file.exists \/ ~resume_file.readable

\* C9: with a missing or unparseable resume parse_resume_keywords returns an
\* empty result without raising and main returns at once: no session is
\* acquired, no adapter is invoked, nothing is inserted, nothing is notified.
C9_NoResumeAborts ==
    (ResumeUnusable /\ pc # "main_start") =>
        /\ resume_keywords = EmptyDict
        /\ pc = "done"
        /\ exc = "none"
        /\ sessions_opened = 0
        /\ driver = None
        /\ invoked = <<>>
        /\ filter_calls = <<>>
        /\ save_calls = <<>>
        /\ db = db_at_start
        /\ notify_calls = <<>>

\* C9 witness: a run with an unparseable resume over a non-empty store has
\* ended
C9_Witness ==
    /\ resume_file.exists
    /\ ~resume_file.readable
    /\ db_at_start # <<>>
    /\ pc = "done"

\* ------------------------------------------------------------------------
\* Claims about the extractors and the adapters (specification SpecScrape)
\* ------------------------------------------------------------------------

\* the descriptions a returned call hands to its caller
ReturnedDescriptions ==
    IF pc # "scrape_return" THEN {}
    ELSE IF call.kind = "extractor" THEN {ret}
    ELSE {ret[i].description : i \in DOMAIN ret}

\* C10: every description an extractor variant returns, on success and on
\* every failure path, and the description of every job record an adapter
\* emits, has at most 5000 characters.
C10_DescriptionAtMost5000 ==
    \A d \in ReturnedDescriptions : Len(d) <= 5000

\* C10 witness: an adapter fetched a job page whose description container
\* holds more than 5000 characters and emitted a record with 5000 of them
C10_Witness ==
    /\ pc = "scrape_return"
    /\ call.kind = "adapter"
    /\ call.fn = "scrape_careers_un_org"
    /\ \E i \in DOMAIN call.listing.cards :
           /\ call.listing.cards[i].detail = page_long_specific
           /\ Len(get_text(page_long_specific.specific.strings, <<"\n">>)) > 5000
    /\ \E i \in DOMAIN ret : Len(ret[i].description) = 5000

\* the returned call is a call of an extractor whose try block was entered
\* (a session where one is needed, and a URL) and whose fetch or parse raised
ExtractorFailed ==
    /\ pc = "scrape_return"
    /\ call.kind = "extractor"
    /\ call.fn = "fetch_full_description_requests" \/ call.driver # None
    /\ ~NoUrl(call.job_url)
    /\ call.page.status # "ok"

\* the backend an extractor uses
BackendSentinel(fn) ==
    IF fn = "fetch_full_description_requests" THEN s_na_requests ELSE s_na_selenium

\* C11: an extractor never raises to its caller: when the fetch fails (HTTP
\* error, timeout, WebDriver error) or the parse fails, the call returns the
\* string "N/A (Could not fetch full description via <backend>)" with the
\* backend that was used, requests or Selenium.
C11_FailureGivesBackendSentinel ==
    /\ pc = "scrape_return" /\ call.kind = "extractor" => ret \in Seq(STRING)
    /\ ExtractorFailed => ret = BackendSentinel(call.fn)

\* C11 witness: the wait of the driver timed out in the rendering extractor of
\* job_scraper and the call returned the Selenium sentinel
C11_Witness ==
    /\ ExtractorFailed
    /\ call.fn = "job_scraper.fetch_full_description_selenium"
    /\ call.page.status = "TimeoutException"
    /\ ret = s_na_selenium

\* the adapters that read their cards through the driver
RenderedAdapters == {"scrape_microsoft_careers", "scrape_wfp_careers"}

\* the adapters that return at once without a session
DriverAdapters == RenderedAdapters \cup {"scrape_wellfound"}

\* the returned call is a call of an adapter that got its listing
AdapterGotListing ==
    /\ pc = "scrape_return"
    /\ call.kind = "adapter"
    /\ call.listing.status = "ok"
    /\ call.fn \in DriverAdapters => call.driver # None

\* the card is broken: reading it raises, or it has no title element
Broken(card) == card.raises \/ card.title_tag = None

\* the titles of the listing's cards that are not broken, in listing order
CompleteTitles(cards) ==
    LET complete == SelectSeq(cards, LAMBDA card : ~Broken(card))
    IN  [i \in 1..Len(complete) |-> Strip(complete[i].title_tag.text)]

\* the titles of the emitted records other than "N/A", in output order
EmittedTitles(jobs) ==
    SelectSeq([i \in 1..Len(jobs) |-> jobs[i].title], LAMBDA t : t # s_NA)

\* C12: in every adapter, when one card of a listing is broken (reading it
\* raises, or it has no title element), the adapter is not aborted: every
\* other card yields its record, in listing order, and the broken card is
\* skipped or emitted with the title "N/A"; so five cards with a broken third
\* card yield the four records of cards 1, 2, 4 and 5.
C12_CardFailureIsolated ==
    (/\ AdapterGotListing
     /\ Cardinality({i \in DOMAIN call.listing.cards : Broken(call.listing.cards[i])}) = 1)
    => EmittedTitles(ret) = CompleteTitles(call.listing.cards)

\* C13: in every adapter, when the fetch of the listing fails entirely
\* (transport error, HTTP error status, render timeout), the adapter returns
\* the empty list; no exception reaches the aggregator.
C13_FailedListingGivesNoJobs ==
    (pc = "scrape_return" /\ call.kind = "adapter" /\ call.listing.status # "ok")
    => ret = <<>>

\* C13 witness: careers.un.org answered with an error status and a body that
\* holds a row, and the adapter returned the empty list
C13_Witness ==
    /\ pc = "scrape_return"
    /\ call.kind = "adapter"
    /\ call.fn = "scrape_careers_un_org"
    /\ call.listing.status = "HTTPError"
    /\ call.listing.cards # <<>>
    /\ ret = <<>>

\* ------------------------------------------------------------------------
\* Relations between calls of the relevance filter (specification SpecFilter)
\* ------------------------------------------------------------------------

\* is_remote, role_match, is_international_company and is_ngo as the filter
\* computes them for a job and a keyword set
FilterPredicates(job, keywords) ==
    LET title == Lower(Get(job, "title", <<>>))
        company == Lower(Get(job, "company", <<>>))
        location == Lower(Get(job, "location", <<>>))
        description == Lower(Get(job, "description", <<>>))
    IN  <<is_remote(title, location), role_match(title, description, keywords.roles),
          is_international_company(company, description), is_ngo(company, description)>>

\* skills_match_count as the filter computes it for a job and a keyword set
FilterSkillsCount(job, keywords) ==
    skills_match_count(Lower(Get(job, "title", <<>>)), Lower(Get(job, "description", <<>>)),
                       keywords.skills)

\* the inputs that agree with the returned call on the four predicates and
\* match at least as many skills
AtLeastAsSkilled ==
    {inp \in JobUniverse \X KeywordUniverse :
        /\ FilterPredicates(inp[1], inp[2]) = FilterPredicates(job_data, resume_keywords)
        /\ FilterSkillsCount(inp[1], inp[2]) >= FilterSkillsCount(job_data, resume_keywords)}

\* C14: raising skills_match_count while is_remote, role_match,
\* is_international, is_ngo and the threshold stay fixed never turns an
\* accepted job into a rejected one and never lowers its relevance_score.
C14_AcceptanceMonotonic ==
    (pc = "filter_return" /\ filtered_job # None) =>
        \A inp \in AtLeastAsSkilled :
            LET other == filter_and_process_job(inp[1], inp[2], MIN_SKILL_MATCHES, today, now)
            IN  /\ other # None
                /\ other.relevance_score >= filtered_job.relevance_score

\* C14 witness: a job was accepted with two matching skills under threshold
\* 2, and another input with the same predicates matches three
C14_Witness ==
    /\ pc = "filter_return"
    /\ filtered_job # None
    /\ MIN_SKILL_MATCHES = 2
    /\ FilterSkillsCount(job_data, resume_keywords) = 2
    /\ \E inp \in AtLeastAsSkilled : FilterSkillsCount(inp[1], inp[2]) = 3

\* C15 as stated: two calls of filter_and_process_job with the same job and
\* the same keyword set return the same result, the same decision and the
\* same scored record.
C15_SameInputsSameResult ==
    pc = "filter_again" => ret = filtered_job

\* the fields of a scored record that do not come from the clock
TimelessFields == {"title", "company", "location", "url", "description", "relevance_score"}

\* C15: two calls of filter_and_process_job with the same job and the same
\* keyword set take the same decision, and the two scored records agree on
\* title, company, location, url, description and relevance_score, and on
\* date_posted when the job carries one; date_found is the time of each call,
\* so the records differ by the time that passed between the calls.
C15_SameResultButClock ==
    pc = "filter_again" =>
        /\ (ret = None) <=> (filtered_job = None)
        /\ ret # None =>
               /\ \A f \in TimelessFields : ret[f] = filtered_job[f]
               /\ "date_posted" \in DOMAIN job_data => ret.date_posted = filtered_job.date_posted
               /\ ret.date_found = filtered_job.date_found + call.elapsed

\* C15 witness: the second call of an accepted job came one tick later and
\* returned a record that differs from the first in date_found only
C15_Witness ==
    /\ pc = "filter_again"
    /\ filtered_job # None
    /\ call.elapsed = 1
    /\ ret # filtered_job
    /\ [ret EXCEPT !.date_found = filtered_job.date_found] = filtered_job

\* ------------------------------------------------------------------------
\* Claims about the resume keyword extractor and the store (specification
\* Spec)
\* ------------------------------------------------------------------------

\* the terms of a vocabulary that occur in the case-folded text
TermsIn(vocabulary, text) == {t \in Range(vocabulary) : Contains(t, Lower(text))}

\* parse_resume_keywords has just returned for a resume whose text could be
\* read (main goes on to read the stored URLs, or returns at once);
\* resume_keywords is not assigned again
ReadableResumeParsed ==
    /\ pc \in {"get_urls", "done"}
    /\ existing_job_urls = {} /\ sessions_opened = 0 /\ invoked = <<>>
    /\ resume_file.exists /\ resume_file.readable

UrlStored(rows, url) == \E i \in DOMAIN rows : rows[i].url = url

\* C17: save_job_listing returns false and leaves the store unchanged when a
\* record with the same url is already stored, and returns true after adding
\* the record otherwise; hence after any sequence of inserts no two stored
\* records share a url.
C17_UrlIsUniqueKey ==
    /\ pc = "store_return" =>
           IF UrlStored(call.rows, call.job_data.url)
           THEN ret = FALSE /\ db = call.rows
           ELSE ret = TRUE /\ db = Append(call.rows, call.job_data)
    /\ \A i, j \in DOMAIN db : db[i].url = db[j].url => i = j

\* C17 witness: a second record with the url "N/A" and another title was
\* refused, after three records had been added
C17_Witness ==
    /\ pc = "store_return"
    /\ ret = FALSE
    /\ db = call.rows
    /\ Len(db) = 3
    /\ call.job_data.url = s_NA
    /\ \E i \in DOMAIN db : db[i].url = s_NA /\ db[i].title # call.job_data.title

\* ------------------------------------------------------------------------
\* Claims about the extraction strategies and the dates (specification
\* SpecScrape)
\* ------------------------------------------------------------------------

\* the text each strategy of an extractor yields for a page, in the order the
\* strategies are tried: site-specific selector (HTTP extractor only),
\* class-name heuristic, broad sweep
StrategyTexts(fn, page) ==
    (IF fn = "fetch_full_description_requests"
     THEN <<IF page.specific = None THEN <<>> ELSE get_text(page.specific.strings, <<"\n">>)>>
     ELSE <<>>)
    \o <<joined_text(page.classed), joined_text(page.broad)>>

\* the text of the first strategy whose text is not empty, cut to 5000
\* characters; the empty text when there is none
FirstNonEmpty(texts) ==
    LET found == SelectSeq(texts, NonEmpty)
    IN  IF found = <<>> THEN <<>> ELSE Truncate(found[1])

\* the returned call is a call of one of the two extractors of job_scraper
\* that fetched and parsed its page
StrategiesTried ==
    /\ pc = "scrape_return"
    /\ call.kind = "extractor"
    /\ \/ call.fn = "fetch_full_description_requests"
       \/ call.fn = "job_scraper.fetch_full_description_selenium" /\ call.driver # None
    /\ ~NoUrl(call.job_url)
    /\ call.page.status = "ok"

\* C18: the extractor tries its strategies in order (site-specific selector,
\* class-name heuristic, broad sweep) and returns the text of the first
\* strategy whose joined text is non-empty; a strategy that matches elements
\* but yields empty text does not win.
C18_FirstNonEmptyStrategyWins ==
    StrategiesTried => ret = FirstNonEmpty(StrategyTexts(call.fn, call.page))

\* the returned call is a call of the adapter on a result page of one card
\* that has its fields
OneCardScraped(fn) ==
    /\ pc = "scrape_return"
    /\ call.kind = "adapter"
    /\ call.fn = fn
    /\ call.listing.status = "ok"
    /\ Len(call.listing.cards) = 1
    /\ ~call.listing.cards[1].raises

\* date_posted as the date normalization policy gives it for an unjobs.org
\* card: relative form, else the two absolute formats, else today
StatedUnjobsDate(date) ==
    IF date = None THEN today
    ELSE IF date.form = "days_ago" THEN today - date.n
    ELSE IF date.form \in {"month_d_year", "d_month_year"} THEN date.day
    ELSE today

\* C19: in the unjobs.org adapter the date_posted of a card is today minus N
\* days for the text "N days ago", else the parsed date for "Month D Year" or
\* "D Month Year", else (no date text, unknown format) today; parsing the
\* date never raises and never drops the card.
C19_UnjobsDatePolicy ==
    OneCardScraped("scrape_unjobs_org") =>
        /\ Len(ret) = 1
        /\ ret[1].date_posted = StatedUnjobsDate(call.listing.cards[1].date)

\* C20: in the careers.un.org adapter date_posted follows the shared date
\* normalization policy: a posting period "start - end" yields the start
\* date, the relative form "N days ago" yields today minus N days, and a
\* text of no known form, or no text, yields today.
C20_CareersDatePolicy ==
    OneCardScraped("scrape_careers_un_org") =>
        LET date == call.listing.cards[1].date
        IN  /\ Len(ret) = 1
            /\ date = None => ret[1].date_posted = today
            /\ date # None =>
                   /\ date.form = "period" => ret[1].date_posted = date.day
                   /\ date.form = "days_ago" => ret[1].date_posted = today - date.n
                   /\ date.form = "other" => ret[1].date_posted = today

\* ------------------------------------------------------------------------
\* Claims about the Wellfound description fetch (specification SpecScrape)
\* ------------------------------------------------------------------------

\* the job URL of a Wellfound card, job_scraper.py lines 208-212
WellfoundUrl(card) ==
    IF card.title_tag # None /\ card.title_tag.href # NoneStr
    THEN s_wellfound_host \o card.title_tag.href ELSE s_NA

\* the description of a Wellfound card as stated: the HTTP backend first, the
\* rendering backend only when the HTTP fetch returned its could-not-fetch
\* sentinel (a session exists whenever the cards are read)
StatedWellfoundDescription(d, card) ==
    LET http == fetch_full_description_requests(WellfoundUrl(card), card.detail)
    IN  IF http = s_na_requests
        THEN fetch_full_description_selenium(d, WellfoundUrl(card), card.rendered)
        ELSE http

\* the returned call is a call of the Wellfound adapter that read its cards
WellfoundScraped ==
    /\ pc = "scrape_return"
    /\ call.kind = "adapter"
    /\ call.fn = "scrape_wellfound"
    /\ call.driver # None
    /\ call.listing.status = "ok"

\* C21: for each Wellfound card the description is fetched with the HTTP
\* backend first, and the rendering backend is used for that card only if the
\* HTTP fetch returned its could-not-fetch sentinel and a session exists; when
\* the HTTP fetch succeeds, or the card has no url, the description is the
\* HTTP backend's.
C21_RenderOnlyAfterHttpFailure ==
    WellfoundScraped =>
        LET read == SelectSeq(call.listing.cards, LAMBDA card : ~card.raises)
        IN  /\ Len(ret) = Len(read)
            /\ \A i \in DOMAIN read :
                   ret[i].description = StatedWellfoundDescription(call.driver, read[i])

\* ------------------------------------------------------------------------
\* Claim about the record the filter returns (specification SpecFilter)
\* ------------------------------------------------------------------------

\* the fields of a JobRecord
JobRecordFields == {"title", "company", "location", "url", "description", "date_posted"}

\* C22: for every accepted job the scored record carries the title, company,
\* location, url, description and date_posted of the input record unchanged
\* and adds only relevance_score and date_found.
C22_ScoredRecordKeepsFields ==
    (pc = "filter_return" /\ filtered_job # None) =>
        /\ DOMAIN filtered_job = JobRecordFields \cup {"relevance_score", "date_found"}
        /\ \A f \in JobRecordFields \cap DOMAIN job_data : filtered_job[f] = job_data[f]

\* ------------------------------------------------------------------------
\* Claims about the notifications of a run (specification Spec)
\* ------------------------------------------------------------------------

\* the rows the run has inserted so far
RowsInserted == {db[i] : i \in (Len(db_at_start) + 1)..Len(db)}

\* C23: every job for which a notification is sent was newly inserted into
\* the store by this run; when two accepted records of the run share a url
\* (two unjobs.org records with url "N/A"), at most one of them is notified.
C23_NotifiedWereInserted ==
    /\ \A i \in DOMAIN notify_calls : notify_calls[i] \in RowsInserted
    /\ \A i, j \in DOMAIN notify_calls :
           notify_calls[i].url = notify_calls[j].url => i = j

\* ------------------------------------------------------------------------
\* Claims about a second run of main (specification SpecRerun)
\* ------------------------------------------------------------------------

\* main is running for the second time
SecondRun == call # None /\ call.kind = "main"

\* the first run went through to its end, and the second run has a
\* rendering session only if the first one had
SameConditions ==
    /\ call.previous.pc = "done"
    /\ driver # None => call.previous.driver # None

CompleteCard(card) ==
    /\ ~card.raises
    /\ card.title_tag # None
    /\ card.title_tag.href # NoneStr
    /\ card.location # NoneStr

\* C25: in the Microsoft Careers and WFP Careers adapters a listing of n
\* cards that all have title, link and location yields n records:
\* navigating the session to card k's job page loses none of the cards
\* k+1..n.
C25_EveryCompleteCardYieldsRecord ==
    (AdapterGotListing /\ call.fn \in RenderedAdapters
        /\ \A i \in DOMAIN call.listing.cards : CompleteCard(call.listing.cards[i])) =>
        Len(ret) = Len(call.listing.cards)

\* ------------------------------------------------------------------------
\* Claims about a run without a rendering session (specification Spec)
\* ------------------------------------------------------------------------

\* main has tried to get a session and got none: get_selenium_driver
\* returned None or raised
SessionNotInitialized ==
    /\ sessions_opened = 0
    /\ \/ pc \in {"scrape_unjobs", "scrape_careers", "scrape_wellfound", "scrape_linkedin",
                  "filter", "notify", "failed"}
       \/ pc = "done" /\ resume_keywords # EmptyDict

\* the url is the url of a row of the store
UrlInStore(url) == \E i \in DOMAIN db : db[i].url = url

\* C26: if the rendering session cannot be initialized, the run is not
\* aborted: unjobs.org and careers.un.org are still scraped and their
\* records are filtered and persisted, Wellfound contributes no record, and
\* no release of the absent session is attempted.
C26_RunGoesOnWithoutSession ==
    SessionNotInitialized =>
        /\ driver = None
        /\ sessions_closed = 0
        /\ pc = "failed" => exc \in {"adapter", "sqlite3.OperationalError"}
        /\ (pc = "filter" /\ idx = 1) =>
               /\ SubSeq(invoked, 1, 3) = <<"unjobs.org", "careers.un.org", "Wellfound">>
               /\ all_jobs = scrape_unjobs_org(site.unjobs, today)
                             \o scrape_careers_un_org(site.careers, today)
        /\ pc = "done" =>
               \A k \in DOMAIN all_jobs :
                   all_jobs[k].url \notin existing_job_urls =>
                       /\ k \in Range(filter_calls)
                       /\ filter_and_process_job(all_jobs[k], resume_keywords,
                                                 MIN_SKILL_MATCHES, today, now) # None
                              => UrlInStore(all_jobs[k].url)

C26_Witness ==
    /\ SessionNotInitialized
    /\ pc = "done"
    /\ site.wellfound.status = "ok" /\ site.wellfound.cards # <<>>
    /\ Len(all_jobs) > 1
    /\ Len(db) > Len(db_at_start)
    /\ notify_calls # <<>>
====
